---- MODULE Spec2Model ----
(***************************************************************************)
(* Enrichment pipeline of letterboxd-stats.                                *)
(*                                                                         *)
(*   Spec        the batch orchestrator (EnrichmentWorker) over one        *)
(*               session row and its movie rows (StorageService): the      *)
(*               upload request that creates the session and the scheduled *)
(*               job enrich_sessions -> enrich_session_async.              *)
(*   SpecForce   the same, with a caller of force_enrich_session ->        *)
(*               enrich_session running beside the scheduled job.          *)
(*   SpecFair    Spec with weak fairness on the steps of the job.          *)
(*   SpecClient  the TMDB client (TMDBClient): the rolling rate window of  *)
(*               the synchronous path and the calls of the asynchronous    *)
(*               path.                                                     *)
(*   SpecEnrich  calls of enrich_movie_async through one TMDBClient: the   *)
(*               cache, the search and the details request, and what the   *)
(*               provider answers to each.                                 *)
(*   SpecTasks   two tasks of one batch inside enrich_movie_async.         *)
(*   SpecMatch   _find_best_match on the provider's result lists.          *)
(*   SpecGate    tasks passing the semaphore of the asynchronous path.     *)
(*   SpecThreads threads inside _wait_for_rate_limit, statement by         *)
(*               statement.                                                *)
(*   SpecStop    Spec with stop_scheduler called at any moment.            *)
(*   SpecPaths   calls of enrich_movie and of enrich_movie_async through   *)
(*               one TMDBClient and its one cache.                         *)
(*   SpecBatch   the batch loop of enrich_session_async with the source's  *)
(*               batch_size.                                               *)
(*   SpecExtract extract_enrichment_data and its helpers on details        *)
(*               responses, crew lists and cast lists.                     *)
(*   SpecLookup  direct calls of search_movie_async and of                 *)
(*               get_movie_details_async, valid and invalid arguments.     *)
(*                                                                         *)
(* Every database call of the worker runs in its own transaction; a        *)
(* read-modify-write through the ORM (query, change the attribute, commit) *)
(* is two steps, the SELECT and the UPDATE carrying the value computed in  *)
(* Python.                                                                 *)
(***************************************************************************)
EXTENDS Naturals, Integers, Sequences, FiniteSets, TLC

\* ------------------------------------------------------------------ bounds
\* Movies one upload stores at most.
MaxMovies == 3
\* Cycles started on the session at most, by the scheduled job and by
\* force_enrich_session together.
MaxCycles == 2
\* Storage errors (SQLAlchemyError) the database raises at most in one run.
MaxFaults == 1
\* Batch width of the model. The source's batch_size is 10
\* (enrichment_worker.py:336); the orchestrator is modelled with a narrower
\* batch so that a session of MaxMovies movies spans more than one batch.
BatchSize == 2

\* The clock of the client stops here (tenths of a second).
MaxClock == 230
\* Network calls of the asynchronous path in one trailing window at most.
MaxAsync == 2

\* Calls of enrich_movie_async in one run at most.
MaxCalls == 2
\* The clock of the cache stops here (seconds).
MaxUtc == 600

\* Candidates in one result list of the provider's search at most.
MaxCandidates == 3
\* Tasks that call the provider through the gate of the asynchronous path.
MaxTasks == 11
\* Calls of _wait_for_rate_limit one thread makes at most.
MaxThreadCalls == 2

\* ------------------------------------------------------ program constants
\* TMDBClient.REQUEST_LIMIT and RATE_LIMIT_WINDOW (seconds).
REQUEST_LIMIT == 40
RATE_LIMIT_WINDOW == 10
\* The 0.1 s that _wait_for_rate_limit adds to its wait: the unit of the clock.
Margin == 1
\* TMDBClient.CACHE_TTL (seconds).
CACHE_TTL == 600
\* asyncio.Semaphore(10) of _get_rate_limiter.
SemaphoreValue == 10
\* The rate window in units of the clock.
Window == RATE_LIMIT_WINDOW * 10 * Margin

\* --------------------------------------------------------------- variables
VARIABLES
    \* sessions row (models/database.py Session)
    status,          \* "processing" | "enriching" | "completed" | "failed"
    total_movies,
    enriched_count,
    error_message,   \* "" stands for NULL
    \* movies rows: tmdb_enriched[m] for the movies 1..total_movies
    tmdb_enriched,
    \* the upload request (api/upload.py): "store" | "status" | "done"
    upload,
    \* the two callers of a cycle: "sched" (enrich_sessions) and "force"
    pc,              \* [Procs -> "idle" | "fetch" | "batch" | "status" | "except"]
    fetched,         \* [Procs -> the list get_unenriched_movies returned]
    pos,             \* sched: batch_start (0-based); force: index of the movie
    task,            \* [Procs -> [Movies -> position of the item's task]]
    val,             \* [Procs -> [Movies -> the enriched_count the task read]]
    out,             \* [Procs -> [Movies -> what the client gave for the item]]
    invoked,         \* [Procs -> [Movies -> client invocations this cycle]]
    count0,          \* enriched_count when the batch in flight was launched
    ended,           \* [Procs -> how the caller's last cycle ended]
    cycles,          \* [Procs -> cycles started]
    faults,          \* storage errors raised so far
    \* TMDB client (services/tmdb_client.py)
    now,             \* the clock, in tenths of a second
    request_times,   \* TMDBClient._request_times
    recorded,        \* times appended to _request_times, trailing window
    slept,           \* how long the last _wait_for_rate_limit slept
    net_times,       \* times of the network calls made, trailing window
    \* the provider's verdict on the client's api_key:
    \* "untried" | "accepted" | "rejected" (HTTP 401)
    api_key,
    \* enrichment calls through the client (enrich_movie_async)
    utcnow,          \* datetime.utcnow(), in seconds
    cache,           \* TMDBClient._cache: cache key -> [value, timestamp]
    epc,             \* the call in flight: "idle" | "search" | "details"
    call,            \* the call in flight, or the last one that returned
    prev,            \* the call before it
    got,             \* what the call's _get_from_cache lookups found
    \* _find_best_match: the last application, its arguments and its result
    match,
    \* the gate of the asynchronous path
    rate_limiter,    \* TMDBClient._rate_limiter: 0 for None, else the semaphore
    semaphores,      \* the asyncio.Semaphore objects made: the value of each
    gate,            \* [GateTasks -> where the task's provider call stands]
    \* threads inside _wait_for_rate_limit
    thread,          \* [Threads -> the thread's position and locals]
    \* BackgroundScheduler.running
    is_running,
    \* tasks of one batch inside enrich_movie_async
    atask,           \* [Tasks -> the task's position and call record]
    \* the calls of `call.n` that went through enrich_movie (synchronous)
    sync_calls,
    \* the batch loop of enrich_session_async on a list of items
    loop,
    \* extract_enrichment_data, _extract_directors, _extract_cast: the last
    \* application, its argument and its result
    extract,
    \* a direct call of search_movie_async or get_movie_details_async
    lookup,
    \* movies rows: the columns title, year and tmdb_id of each movie
    movie_rows

dbvars == <<status, total_movies, enriched_count, error_message, tmdb_enriched>>
cyclevars == <<pc, fetched, pos, task, val, out, invoked, count0, ended, cycles>>
clientvars == <<now, request_times, recorded, slept, net_times>>
enrichvars == <<utcnow, cache, epc, call, prev, got>>
gatevars == <<rate_limiter, semaphores, gate>>
morevars == <<sync_calls, loop, extract, lookup, movie_rows>>
sidevars == <<match, gatevars, thread, is_running, atask, morevars>>
vars == <<dbvars, upload, cyclevars, faults, clientvars, api_key, enrichvars,
          sidevars>>
\* sidevars without the movie rows.
siderest == <<match, gatevars, thread, is_running, atask, sync_calls, loop,
              extract, lookup>>

Procs == {"sched", "force"}
\* Tasks on one event loop that call the provider, threads that call
\* _wait_for_rate_limit, and tasks of one batch.
GateTasks == 1..MaxTasks
Threads == {1, 2}
Tasks == {1, 2}
Movies == 1..MaxMovies

Min(a, b) == IF a < b THEN a ELSE b
Range(s) == {s[i] : i \in 1..Len(s)}

\* ------------------------------------------------------------ StorageService
\* get_unenriched_movies: the session's movies with tmdb_enriched = False.
get_unenriched_movies ==
    SelectSeq([i \in 1..total_movies |-> i], LAMBDA m : ~tmdb_enriched[m])

\* update_session_status: session.status = status, whatever it was.
update_session_status(current, new) == new

\* increment_enriched_count: session.enriched_count += 1 on the value the
\* query loaded; the commit writes the sum.
increment_enriched_count(loaded) == loaded + 1

\* store_movies: the row inserted for the m-th movie of the upload, with its
\* id, title and year; the TMDB columns are empty (tmdb_id 0 stands for NULL).
store_movies(m) == [id |-> m, title |-> <<"M">>, year |-> 1999, tmdb_id |-> 0]

\* update_movie_enrichment, the TMDB columns: the row with id m takes the
\* tmdb_id of the enrichment data.
update_movie_fields(rows, m, tmdb_id) == [rows EXCEPT ![m].tmdb_id = tmdb_id]

\* The tmdb_id of the enrichment data the client returns.
DataId == 603

\* An update that leaves out the filter on the movie's id.
update_every_movie(m) == [k \in DOMAIN tmdb_enriched |-> TRUE]

\* update_movie_enrichment: movie.tmdb_enriched = True.
update_movie_enrichment(m) == [tmdb_enriched EXCEPT ![m] = TRUE]

\* A storage call may raise while the fault budget lasts.
MayFail == faults < MaxFaults

\* ----------------------------------------------------------------- Init
\* None, as a cache value or as what a lookup or a call returns.
NoValue == [kind |-> "none", id |-> 0]
\* No _get_from_cache lookup made.
NoLookup == [done |-> FALSE, key |-> <<>>, value |-> NoValue, at |-> 0,
             held |-> NoValue, held_at |-> 0]
\* No call of enrich_movie_async made.
NoCall == [n |-> 0, title |-> <<>>, year |-> 0, start |-> 0, nsearch |-> 0,
           ndetails |-> 0, sresp |-> "none", dresp |-> "none", tmdb_id |-> 0,
           result |-> "none", cleared |-> FALSE]
\* What is kept of the call before: its arguments, when it started, how its
\* search and its details request went ("none": no network call, "ok": a 200
\* response, "failed": anything else) and whether clear_cache ran since.
NoPrev == [n |-> 0, title |-> <<>>, year |-> 0, start |-> 0,
           search |-> "none", details |-> "none", cleared |-> FALSE]
\* self._cache = {}
EmptyCache == [k \in {} |-> NoValue]

\* _find_best_match not applied; a candidate stands for one entry of the
\* provider's result list.
NoCandidate == [popularity |-> 0, release_date |-> <<>>]
NoMatch == [called |-> FALSE, results |-> <<>>, year |-> 0,
            out |-> [kind |-> "none", value |-> NoCandidate]]
\* A task outside a provider call; a thread outside _wait_for_rate_limit; a
\* task of the batch not started.
NoGate == [pc |-> "idle", sem |-> 0]
NoThread == [pc |-> "idle", n |-> 0, cutoff |-> 0, kept |-> <<>>, wake |-> 0]
NoTask == [pc |-> "none", call |-> NoCall]

\* The batch loop not entered; no extraction made; no direct lookup made; no
\* movie row.
NoLoop == [pc |-> "none", items |-> <<>>, batch_start |-> 0, batches |-> <<>>]
NoExtract == [fn |-> "none", arg |-> <<>>, out |-> <<>>]
NoDirect == [n |-> 0, fn |-> "none", title |-> [type |-> "none", v |-> <<>>],
             year |-> 0, tmdb_id |-> [type |-> "none", v |-> 0],
             pc |-> "none", read |-> FALSE, sem |-> 0, net |-> 0,
             result |-> "none"]
NoRow == [id |-> 0, title |-> <<>>, year |-> 0, tmdb_id |-> 0]

NoTasks == [m \in Movies |-> "none"]
Zeros == [m \in Movies |-> 0]

Init ==
    /\ status = "processing"
    /\ total_movies = 0
    /\ enriched_count = 0
    /\ error_message = ""
    /\ tmdb_enriched = [m \in Movies |-> FALSE]
    /\ upload = "store"
    /\ pc = [p \in Procs |-> "idle"]
    /\ fetched = [p \in Procs |-> <<>>]
    /\ pos = [p \in Procs |-> 0]
    /\ task = [p \in Procs |-> NoTasks]
    /\ val = [p \in Procs |-> Zeros]
    /\ out = [p \in Procs |-> NoTasks]
    /\ invoked = [p \in Procs |-> Zeros]
    /\ count0 = 0
    /\ ended = [p \in Procs |-> "none"]
    /\ cycles = [p \in Procs |-> 0]
    /\ faults = 0
    /\ now = 0
    /\ request_times = <<>>
    /\ recorded = <<>>
    /\ slept = 0
    /\ net_times = <<>>
    /\ api_key = "untried"
    /\ utcnow = 0
    /\ cache = EmptyCache
    /\ epc = "idle"
    /\ call = NoCall
    /\ prev = NoPrev
    /\ got = [search |-> NoLookup, details |-> NoLookup]
    /\ match = NoMatch
    /\ rate_limiter = 0
    /\ semaphores = <<>>
    /\ gate = [t \in GateTasks |-> NoGate]
    /\ thread = [t \in Threads |-> NoThread]
    /\ is_running = TRUE
    /\ atask = [t \in Tasks |-> NoTask]
    /\ sync_calls = {}
    /\ loop = NoLoop
    /\ extract = NoExtract
    /\ lookup = NoDirect
    /\ movie_rows = [m \in Movies |-> NoRow]

\* ------------------------------------------------------------ api/upload.py
\* upload_files: create_session left the row in "processing"; store_movies
\* inserts the movies and sets total_movies.
UploadStore(n) ==
    /\ upload = "store"
    /\ total_movies' = n
    /\ movie_rows' = [m \in DOMAIN movie_rows |->
                        IF m <= n THEN store_movies(m) ELSE movie_rows[m]]
    /\ upload' = "status"
    /\ UNCHANGED <<status, enriched_count, error_message, tmdb_enriched,
                   cyclevars, faults, clientvars, api_key, enrichvars, siderest>>

\* upload_files: "enriching" when movies were stored, else "completed".
UploadStatus ==
    /\ upload = "status"
    /\ status' = update_session_status(status,
                     IF total_movies > 0 THEN "enriching" ELSE "completed")
    /\ upload' = "done"
    /\ UNCHANGED <<total_movies, enriched_count, error_message, tmdb_enriched,
                   cyclevars, faults, clientvars, api_key, enrichvars, sidevars>>

\* ------------------------------------------------- cycle steps, both callers
\* The batch slice with its upper end one short.
BatchShort(list, batch_start) ==
    SubSeq(list, batch_start + 1, Min(batch_start + BatchSize, Len(list)) - 1)

\* The items of the batch that starts at batch_start.
Batch(list, batch_start) ==
    SubSeq(list, batch_start + 1, Min(batch_start + BatchSize, Len(list)))

\* A cycle begins.
Begin(p) ==
    /\ pc[p] = "idle"
    /\ cycles["sched"] + cycles["force"] < MaxCycles
    /\ pc' = [pc EXCEPT ![p] = "fetch"]
    /\ cycles' = [cycles EXCEPT ![p] = @ + 1]
    /\ ended' = [ended EXCEPT ![p] = "running"]
    /\ UNCHANGED <<dbvars, upload, fetched, pos, task, val, out, invoked,
                   count0, faults, clientvars, api_key, enrichvars, sidevars>>

\* The cycle returns to its caller: its local state is gone.
Return(p, how) ==
    /\ pc' = [pc EXCEPT ![p] = "idle"]
    /\ ended' = [ended EXCEPT ![p] = how]
    /\ fetched' = [fetched EXCEPT ![p] = <<>>]
    /\ pos' = [pos EXCEPT ![p] = 0]
    /\ task' = [task EXCEPT ![p] = NoTasks]
    /\ val' = [val EXCEPT ![p] = Zeros]
    /\ out' = [out EXCEPT ![p] = NoTasks]
    /\ invoked' = [invoked EXCEPT ![p] = Zeros]

\* The tasks of the items `ms` start: each calls the enrichment client.
Launch(p, ms) ==
    /\ task' = [task EXCEPT ![p] = [m \in Movies |->
                    IF m \in Range(ms) THEN "client" ELSE @[m]]]
    /\ invoked' = [invoked EXCEPT ![p] = [m \in Movies |->
                    IF m \in Range(ms) THEN @[m] + 1 ELSE @[m]]]

\* The answer of the client with an exception that escapes the item's task
\* and the gather, into the cycle's except clause.
ClientReturnEscapes(p, m, o, k) ==
    /\ task[p][m] = "client"
    /\ api_key \in {"untried", k}
    /\ k = "rejected" => o = "nothing"
    /\ api_key' = k
    /\ out' = [out EXCEPT ![p][m] = o]
    /\ IF o = "raise"
       THEN pc' = [pc EXCEPT ![p] = "except"] /\ UNCHANGED task
       ELSE /\ task' = [task EXCEPT ![p][m] =
                           IF o = "data" THEN "save" ELSE "inc"]
            /\ UNCHANGED pc
    /\ UNCHANGED <<dbvars, upload, fetched, pos, val, invoked, count0,
                   ended, cycles, faults, clientvars, enrichvars, sidevars>>

\* The client answers for item m: data, nothing (None) or an exception.
\* k is the provider's verdict on the api_key, the same for every call of
\* the run; a rejected key (HTTP 401) gives None (tmdb_client.py:141-143
\* and 522-524).
ClientReturn(p, m, o, k) ==
    /\ task[p][m] = "client"
    /\ api_key \in {"untried", k}
    /\ k = "rejected" => o = "nothing"
    /\ api_key' = k
    /\ out' = [out EXCEPT ![p][m] = o]
    /\ task' = [task EXCEPT ![p][m] = IF o = "data" THEN "save" ELSE "inc"]
    /\ UNCHANGED <<dbvars, upload, pc, fetched, pos, val, invoked, count0,
                   ended, cycles, faults, clientvars, enrichvars, sidevars>>

\* update_movie_enrichment for item m; a storage error is caught by the
\* item's except clause, and the progress step follows either way.
Save(p, m) ==
    /\ task[p][m] = "save"
    /\ task' = [task EXCEPT ![p][m] = "inc"]
    /\ \/ /\ tmdb_enriched' = update_movie_enrichment(m)
          /\ movie_rows' = update_movie_fields(movie_rows, m, DataId)
          /\ UNCHANGED faults
       \/ /\ MayFail
          /\ faults' = faults + 1
          /\ UNCHANGED <<tmdb_enriched, movie_rows>>
    /\ UNCHANGED <<status, total_movies, enriched_count, error_message,
                   upload, pc, fetched, pos, val, out, invoked, count0, ended,
                   cycles, clientvars, api_key, enrichvars, siderest>>

\* increment_enriched_count, first half: the query loads the session row.
\* A storage error here is swallowed by the except inside the finally.
IncRead(p, m) ==
    /\ task[p][m] = "inc"
    /\ \/ /\ task' = [task EXCEPT ![p][m] = "write"]
          /\ val' = [val EXCEPT ![p][m] = enriched_count]
          /\ UNCHANGED faults
       \/ /\ MayFail
          /\ faults' = faults + 1
          /\ task' = [task EXCEPT ![p][m] = "incfail"]
          /\ UNCHANGED val
    /\ UNCHANGED <<dbvars, upload, pc, fetched, pos, out, invoked, count0,
                   ended, cycles, clientvars, api_key, enrichvars, sidevars>>

\* increment_enriched_count, second half: commit writes the loaded value + 1.
IncWrite(p, m) ==
    /\ task[p][m] = "write"
    /\ enriched_count' = increment_enriched_count(val[p][m])
    /\ task' = [task EXCEPT ![p][m] = "done"]
    /\ val' = [val EXCEPT ![p][m] = 0]
    /\ UNCHANGED <<status, total_movies, error_message, tmdb_enriched, upload,
                   pc, fetched, pos, out, invoked, count0, ended, cycles,
                   faults, clientvars, api_key, enrichvars, sidevars>>

\* A task counted as over once its enrichment is over, before its progress
\* increment.
FinishedBeforeIncrement(p, m) == task[p][m] \in {"inc", "write", "done", "incfail"}

\* The task of item m is over: its finally clause has run.
Finished(p, m) == task[p][m] \in {"done", "incfail"}

\* The end of a cycle with the status write left out.
StatusNotWritten(p) ==
    /\ pc[p] = "status"
    /\ Return(p, IF fetched[p] = <<>> THEN "empty" ELSE "completed")
    /\ UNCHANGED <<dbvars, upload, count0, cycles, faults, clientvars, api_key, enrichvars, sidevars>>

\* update_session_status(session_id, "completed") at the end of a cycle; a
\* storage error escapes to the cycle's except clause.
Status(p) ==
    /\ pc[p] = "status"
    /\ \/ /\ status' = update_session_status(status, "completed")
          /\ Return(p, IF fetched[p] = <<>> THEN "empty" ELSE "completed")
          /\ UNCHANGED faults
       \/ /\ MayFail
          /\ faults' = faults + 1
          /\ pc' = [pc EXCEPT ![p] = "except"]
          /\ UNCHANGED <<status, ended, fetched, pos, task, val, out, invoked>>
    /\ UNCHANGED <<total_movies, enriched_count, error_message, tmdb_enriched,
                   upload, count0, cycles, clientvars, api_key, enrichvars, sidevars>>

\* An except clause that logs and raises the exception again.
ExceptReraises(p) ==
    /\ pc[p] = "except"
    /\ Return(p, "raised")
    /\ UNCHANGED <<dbvars, upload, count0, cycles, faults, clientvars, api_key, enrichvars, sidevars>>

\* The cycle's except clause: logger.error(...) and nothing else.
Except(p) ==
    /\ pc[p] = "except"
    /\ Return(p, "caught")
    /\ UNCHANGED <<dbvars, upload, count0, cycles, faults, clientvars, api_key, enrichvars, sidevars>>

\* ------------------------------------ scheduled job: enrich_session_async
\* enrich_sessions: the job takes the sessions that get_enriching_sessions
\* returns (status = "enriching") and runs a cycle on each. The scheduler
\* runs one instance of the job at a time (max_instances=1), and fires the
\* job only while it is running.
SchedPoll ==
    /\ is_running
    /\ status = "enriching"
    /\ Begin("sched")

\* _get_unenriched_movies, then the empty check or the first batch. A
\* storage error escapes to the cycle's except clause.
SchedFetch ==
    /\ pc["sched"] = "fetch"
    /\ \/ /\ LET list == get_unenriched_movies IN
             /\ fetched' = [fetched EXCEPT !["sched"] = list]
             /\ IF list = <<>>
                THEN /\ pc' = [pc EXCEPT !["sched"] = "status"]
                     /\ UNCHANGED <<task, invoked, count0>>
                ELSE /\ pc' = [pc EXCEPT !["sched"] = "batch"]
                     /\ Launch("sched", Batch(list, 0))
                     /\ count0' = enriched_count
          /\ UNCHANGED faults
       \/ /\ MayFail
          /\ faults' = faults + 1
          /\ pc' = [pc EXCEPT !["sched"] = "except"]
          /\ UNCHANGED <<fetched, task, invoked, count0>>
    /\ UNCHANGED <<dbvars, upload, pos, val, out, ended, cycles, clientvars, api_key, enrichvars, sidevars>>

SchedClientReturn(m, o, k) ==
    pc["sched"] = "batch" /\ ClientReturn("sched", m, o, k)
SchedSave(m) == pc["sched"] = "batch" /\ Save("sched", m)
SchedIncRead(m) == pc["sched"] = "batch" /\ IncRead("sched", m)
SchedIncWrite(m) == pc["sched"] = "batch" /\ IncWrite("sched", m)

\* asyncio.gather returned: every task of the batch is over. The loop takes
\* the next batch, or the cycle goes on to mark the session.
SchedJoin ==
    /\ pc["sched"] = "batch"
    /\ \A m \in Range(Batch(fetched["sched"], pos["sched"])) : Finished("sched", m)
    /\ LET next == pos["sched"] + BatchSize IN
       IF next < Len(fetched["sched"])
       THEN /\ pos' = [pos EXCEPT !["sched"] = next]
            /\ Launch("sched", Batch(fetched["sched"], next))
            /\ count0' = enriched_count
            /\ UNCHANGED pc
       ELSE /\ pc' = [pc EXCEPT !["sched"] = "status"]
            /\ UNCHANGED <<pos, task, invoked, count0>>
    /\ UNCHANGED <<dbvars, upload, fetched, val, out, ended, cycles, faults,
                   clientvars, api_key, enrichvars, sidevars>>

SchedStatus == Status("sched")
SchedExcept == Except("sched")

\* ------------------------------- manual trigger: force_enrich_session
\* force_enrich_session runs enrich_session on the session it is given,
\* with no look at the session's status or at a cycle already running.
ForceStart == Begin("force")

\* storage.get_unenriched_movies, then the empty check or the first movie.
ForceFetch ==
    /\ pc["force"] = "fetch"
    /\ \/ /\ LET list == get_unenriched_movies IN
             /\ fetched' = [fetched EXCEPT !["force"] = list]
             /\ IF list = <<>>
                THEN /\ pc' = [pc EXCEPT !["force"] = "status"]
                     /\ UNCHANGED <<pos, task, invoked>>
                ELSE /\ pc' = [pc EXCEPT !["force"] = "batch"]
                     /\ pos' = [pos EXCEPT !["force"] = 1]
                     /\ Launch("force", <<list[1]>>)
          /\ UNCHANGED faults
       \/ /\ MayFail
          /\ faults' = faults + 1
          /\ pc' = [pc EXCEPT !["force"] = "except"]
          /\ UNCHANGED <<fetched, pos, task, invoked>>
    /\ UNCHANGED <<dbvars, upload, val, out, count0, ended, cycles, clientvars, api_key, enrichvars, sidevars>>

\* enrich_movie (synchronous) returns data or None; it raises nothing.
ForceClientReturn(m, o, k) ==
    /\ pc["force"] = "batch"
    /\ o \in {"data", "nothing"}
    /\ ClientReturn("force", m, o, k)
ForceSave(m) == pc["force"] = "batch" /\ Save("force", m)
ForceIncRead(m) == pc["force"] = "batch" /\ IncRead("force", m)
ForceIncWrite(m) == pc["force"] = "batch" /\ IncWrite("force", m)

\* The for loop goes to the next movie, or the cycle marks the session.
ForceNext ==
    /\ pc["force"] = "batch"
    /\ Finished("force", fetched["force"][pos["force"]])
    /\ IF pos["force"] < Len(fetched["force"])
       THEN /\ pos' = [pos EXCEPT !["force"] = @ + 1]
            /\ Launch("force", <<fetched["force"][pos["force"] + 1]>>)
            /\ UNCHANGED pc
       ELSE /\ pc' = [pc EXCEPT !["force"] = "status"]
            /\ UNCHANGED <<pos, task, invoked>>
    /\ UNCHANGED <<dbvars, upload, fetched, val, out, count0, ended, cycles,
                   faults, clientvars, api_key, enrichvars, sidevars>>

ForceStatus == Status("force")
ForceExcept == Except("force")

ClientOutcomes == {"data", "nothing", "raise"}
Verdicts == {"accepted", "rejected"}

\* The upload request and the scheduled job.
Next ==
    \/ \E n \in 0..MaxMovies : UploadStore(n)
    \/ UploadStatus
    \/ SchedPoll
    \/ SchedFetch
    \/ \E m \in Movies, o \in ClientOutcomes, k \in Verdicts :
          SchedClientReturn(m, o, k)
    \/ \E m \in Movies : SchedSave(m)
    \/ \E m \in Movies : SchedIncRead(m)
    \/ \E m \in Movies : SchedIncWrite(m)
    \/ SchedJoin
    \/ SchedStatus
    \/ SchedExcept

\* The manual trigger.
NextForce ==
    \/ ForceStart
    \/ ForceFetch
    \/ \E m \in Movies, o \in ClientOutcomes, k \in Verdicts :
          ForceClientReturn(m, o, k)
    \/ \E m \in Movies : ForceSave(m)
    \/ \E m \in Movies : ForceIncRead(m)
    \/ \E m \in Movies : ForceIncWrite(m)
    \/ ForceNext
    \/ ForceStatus
    \/ ForceExcept

\* Spec: the upload and the scheduled job alone.
Spec == Init /\ [][Next]_vars

\* SpecFair: Spec with the progress the event loop and the thread pool give:
\* a step of the job that can be taken is taken in the end (an awaited call
\* returns, a thread-pool call returns or raises, the gather returns).
SpecFair == Spec /\ WF_vars(Next)

\* SpecForce: the same, with a caller of force_enrich_session beside them.
SpecForce == Init /\ [][Next \/ NextForce]_vars

\* ----------------------------------------------------- stop_scheduler
\* stop_scheduler: returns at once when the scheduler is not running, else
\* scheduler.shutdown(wait=True): the scheduler fires no more job, and the
\* caller waits for the job that is running. Nothing of the running cycle is
\* written or signalled.
StopScheduler ==
    /\ is_running
    /\ is_running' = FALSE
    /\ UNCHANGED <<dbvars, upload, cyclevars, faults, clientvars, api_key,
                   enrichvars, match, gatevars, thread, atask, morevars>>

\* SpecStop: Spec with stop_scheduler called at any moment.
SpecStop == Init /\ [][Next \/ StopScheduler]_vars

\* ------------------------------------------------------------ TMDBClient
\* The entries of `times` newer than the cutoff of the instant t.
InWindow(times, t) == SelectSeq(times, LAMBDA x : x > t - Window)

\* The limit test with > for >=.
AtLimitOffByOne(n) == n > REQUEST_LIMIT

\* The limit test of _wait_for_rate_limit.
AtLimit(n) == n >= REQUEST_LIMIT

\* _wait_for_rate_limit called at the instant t, the sleep (if any) lasting
\* `over` longer than asked: the new _request_times and the instant at which
\* the call returns.
wait_for_rate_limit(times, t, over) ==
    LET cutoff == t - Window
        kept == SelectSeq(times, LAMBDA x : x > cutoff)
    IN  IF AtLimit(Len(kept)) /\ kept[1] - cutoff + Margin > 0
        THEN LET woke == t + (kept[1] - cutoff + Margin) + over
             IN  [times |-> Append(InWindow(kept, woke), woke), clock |-> woke]
        ELSE [times |-> Append(kept, t), clock |-> t]

\* Time passes.
Tick(d) ==
    /\ now + d <= MaxClock
    /\ now' = now + d
    /\ recorded' = InWindow(recorded, now')
    /\ net_times' = InWindow(net_times, now')
    /\ slept' = 0
    /\ UNCHANGED <<dbvars, upload, cyclevars, faults, request_times, api_key, enrichvars, sidevars>>

\* _make_request, the synchronous path: _wait_for_rate_limit, then
\* session.get.
MakeRequest(over) ==
    LET r == wait_for_rate_limit(request_times, now, over) IN
    /\ r.clock <= MaxClock
    /\ request_times' = r.times
    /\ now' = r.clock
    /\ slept' = r.clock - now
    /\ recorded' = Append(InWindow(recorded, r.clock), r.clock)
    /\ net_times' = Append(InWindow(net_times, r.clock), r.clock)
    /\ UNCHANGED <<dbvars, upload, cyclevars, faults, api_key, enrichvars, sidevars>>

\* search_movie_async / get_movie_details_async, the asynchronous path: the
\* semaphore, then session.get. _wait_for_rate_limit is not called.
AsyncRequest ==
    /\ Len(net_times) - Len(recorded) < MaxAsync
    /\ net_times' = Append(net_times, now)
    /\ UNCHANGED <<dbvars, upload, cyclevars, faults, now, request_times,
                   recorded, slept, api_key, enrichvars, sidevars>>

\* How far the clock moves between two calls, and how long a sleep may
\* overrun.
Steps == {60, 100}
Oversleep == {0, 3}

NextClient ==
    \/ \E d \in Steps : Tick(d)
    \/ \E over \in Oversleep : MakeRequest(over)
    \/ AsyncRequest

\* SpecClient: calls through one TMDBClient, one after the other.
SpecClient == Init /\ [][NextClient]_vars

\* ------------------------------------------- TMDBClient: cache, enrichment
workvars == <<dbvars, upload, cyclevars, faults, clientvars, sidevars>>

\* Titles are strings over an upper-case letter, its lower-case letter and
\* the blank: the empty title, a title, the same in lower case, and the same
\* with a trailing blank.
Chars == {"M", "m", " "}
Titles == {<<>>, <<"M">>, <<"m">>, <<"m", " ">>}
\* year: 0 stands for None.
Years == {0, 1999}
\* The provider ids (tmdb_id) the search results carry.
Ids == {603}

\* str.lower()
Lower(str) == [i \in 1..Len(str) |-> IF str[i] = "M" THEN "m" ELSE str[i]]

\* str.strip()
Strip(str) ==
    LET solid == {i \in 1..Len(str) : str[i] # " "} IN
    IF solid = {} THEN <<>>
    ELSE SubSeq(str, CHOOSE i \in solid : \A j \in solid : i <= j,
                     CHOOSE i \in solid : \A j \in solid : i >= j)

\* _get_cache_key: the key type and the parameters "name_value", sorted by
\* name and joined, lower-cased as a whole. The parameters are title and year
\* for a search, tmdb_id for the details (title empty).
get_cache_key(key_type, title, num) == <<key_type, Lower(title), num>>

\* The expiry test with <= for <.
FreshInclusive(timestamp, t) == t - timestamp <= CACHE_TTL

\* The expiry test with half the TTL.
FreshShortTTL(timestamp, t) == t - timestamp < CACHE_TTL \div 2

\* datetime.utcnow() - timestamp < timedelta(seconds=CACHE_TTL)
Fresh(timestamp, t) == t - timestamp < CACHE_TTL

\* _get_from_cache at the instant t: the value returned (NoValue for None)
\* and the cache it leaves, an expired entry deleted.
get_from_cache(c, key, t) ==
    IF key \in DOMAIN c
    THEN IF Fresh(c[key].timestamp, t)
         THEN [value |-> c[key].value, cache |-> c]
         ELSE [value |-> NoValue,
               cache |-> [k \in DOMAIN c \ {key} |-> c[k]]]
    ELSE [value |-> NoValue, cache |-> c]

\* _set_cache that stores nothing.
set_cache_lost(c, key, value, t) == c

\* _set_cache at the instant t.
set_cache(c, key, value, t) ==
    [k \in DOMAIN c \cup {key} |->
        IF k = key THEN [value |-> value, timestamp |-> t] ELSE c[k]]

\* The record of one _get_from_cache lookup: what it returned, and the entry
\* the cache held under the key when it was made.
LookupOf(c, key, t) ==
    [done |-> TRUE, key |-> key, value |-> get_from_cache(c, key, t).value,
     at |-> t,
     held |-> IF key \in DOMAIN c THEN c[key].value ELSE NoValue,
     held_at |-> IF key \in DOMAIN c THEN c[key].timestamp ELSE 0]

\* What the provider answers to a search: 200 with results whose best match
\* carries an id ("results"), 200 with an empty result list ("empty"), 200
\* with results whose release_date is null ("malformed"), or a status or
\* failure that is not 200. And to a details request.
SearchResponses == {"results", "empty", "malformed", "404", "429", "401", "timeout"}
DetailsResponses == {"details", "404", "429", "401", "timeout"}
Transient == {"429", "timeout"}

\* The provider answers r to this client's api_key: 401 to a key it rejects,
\* 200 or 404 to a key it accepts, for the whole run.
KeyAllows(r) ==
    IF r = "401" THEN api_key # "accepted"
    ELSE IF r \in Transient THEN TRUE ELSE api_key # "rejected"
KeyAfter(r) ==
    IF r = "401" THEN "rejected"
    ELSE IF r \in Transient THEN api_key ELSE "accepted"

\* How a request of the call c went, r being what the provider answered.
Went(r) ==
    IF r = "none" THEN "none"
    ELSE IF r \in {"results", "empty", "malformed", "details"} THEN "ok"
    ELSE "failed"
PrevOf(c) ==
    [n |-> c.n, title |-> c.title, year |-> c.year, start |-> c.start,
     search |-> Went(c.sresp), details |-> Went(c.dresp),
     cleared |-> c.cleared]

\* enrich_movie_async returns: the call is over.
Returned(c, res) == [c EXCEPT !.result = res]

\* The same as AfterSearch with the empty result list indexed (results[0])
\* instead of checked: an IndexError reaches the caller.
AfterSearchIndexed(c, ch, v, t) ==
    LET key == get_cache_key("details", <<>>, v.id)
        g == get_from_cache(ch, key, t)
        c1 == [c EXCEPT !.tmdb_id = v.id]
    IN  IF v.kind = "none"
        THEN [epc |-> "idle", call |-> Returned(c, "nothing"), cache |-> ch,
              details |-> NoLookup]
        ELSE IF v.kind = "empty" \/ (v.kind = "malformed" /\ c.year # 0)
        THEN [epc |-> "idle", call |-> Returned(c, "raise"), cache |-> ch,
              details |-> NoLookup]
        ELSE IF g.value # NoValue
        THEN [epc |-> "idle", call |-> Returned(c1, "data"), cache |-> g.cache,
              details |-> LookupOf(ch, key, t)]
        ELSE [epc |-> "details", call |-> c1, cache |-> g.cache,
              details |-> LookupOf(ch, key, t)]

\* enrich_movie_async from the point where search_movie_async has returned
\* the value v (lines 606-639), the call record being c and the cache ch:
\* the empty checks, _find_best_match, then get_movie_details_async up to
\* its cache lookup, which either serves the details or leaves the call
\* waiting for the provider. A value of the kind "match" is what search_movie
\* (the synchronous path) stores under the same key: the best match alone,
\* a dict without "results", so that .get("results", []) is empty.
AfterSearch(c, ch, v, t) ==
    LET key == get_cache_key("details", <<>>, v.id)
        g == get_from_cache(ch, key, t)
        c1 == [c EXCEPT !.tmdb_id = v.id]
    IN  IF v.kind \in {"none", "empty", "match"}
        THEN [epc |-> "idle", call |-> Returned(c, "nothing"), cache |-> ch,
              details |-> NoLookup]
        ELSE IF v.kind = "malformed" /\ c.year # 0
        THEN [epc |-> "idle", call |-> Returned(c, "raise"), cache |-> ch,
              details |-> NoLookup]
        ELSE IF v.id <= 0
        THEN [epc |-> "idle", call |-> Returned(c, "nothing"), cache |-> ch,
              details |-> NoLookup]
        ELSE IF g.value # NoValue
        THEN [epc |-> "idle", call |-> Returned(c1, "data"), cache |-> g.cache,
              details |-> LookupOf(ch, key, t)]
        ELSE [epc |-> "details", call |-> c1, cache |-> g.cache,
              details |-> LookupOf(ch, key, t)]

\* enrich_movie_async asking for the details at once, with no search.
EnrichCallDetailsFirst(title, year) ==
    /\ epc = "idle"
    /\ call.n < MaxCalls
    /\ prev' = PrevOf(call)
    /\ epc' = "details"
    /\ call' = [NoCall EXCEPT !.n = call.n + 1, !.title = title, !.year = year,
                              !.start = utcnow,
                              !.tmdb_id = CHOOSE j \in Ids : TRUE]
    /\ got' = [search |-> NoLookup, details |-> NoLookup]
    /\ UNCHANGED <<workvars, api_key, utcnow, cache>>

\* enrich_movie_async(title, year) is called: search_movie_async checks the
\* title and looks the search up in the cache; on a hit the call goes on
\* without a network call, on a miss it waits for the provider.
EnrichCall(title, year) ==
    /\ epc = "idle"
    /\ call.n < MaxCalls
    /\ prev' = PrevOf(call)
    /\ LET c == [NoCall EXCEPT !.n = call.n + 1, !.title = title,
                               !.year = year, !.start = utcnow]
           key == get_cache_key("search", title, year)
           g == get_from_cache(cache, key, utcnow)
           a == AfterSearch(c, g.cache, g.value, utcnow)
       IN  IF title = <<>>
           THEN /\ epc' = "idle"
                /\ call' = Returned(c, "nothing")
                /\ got' = [search |-> NoLookup, details |-> NoLookup]
                /\ UNCHANGED cache
           ELSE IF g.value # NoValue
           THEN /\ epc' = a.epc
                /\ call' = a.call
                /\ cache' = a.cache
                /\ got' = [search |-> LookupOf(cache, key, utcnow),
                           details |-> a.details]
           ELSE /\ epc' = "search"
                /\ call' = c
                /\ cache' = g.cache
                /\ got' = [search |-> LookupOf(cache, key, utcnow),
                           details |-> NoLookup]
    /\ UNCHANGED <<workvars, api_key, utcnow>>

\* The provider answers the search with r (the best match carrying the id i):
\* a 200 response is cached and returned, anything else gives None.
SearchResponse(r, i) ==
    /\ epc = "search"
    /\ KeyAllows(r)
    /\ r \notin {"results", "malformed"} => i = CHOOSE j \in Ids : TRUE
    /\ api_key' = KeyAfter(r)
    /\ LET c == [call EXCEPT !.nsearch = @ + 1, !.sresp = r]
           key == get_cache_key("search", call.title, call.year)
           v == [kind |-> r, id |-> IF r = "empty" THEN 0 ELSE i]
           ch == set_cache(cache, key, v, utcnow)
           a == AfterSearch(c, ch, v, utcnow)
       IN  IF r \in {"results", "empty", "malformed"}
           THEN /\ epc' = a.epc
                /\ call' = a.call
                /\ cache' = a.cache
                /\ got' = [got EXCEPT !.details = a.details]
           ELSE /\ epc' = "idle"
                /\ call' = Returned(c, "nothing")
                /\ UNCHANGED <<cache, got>>
    /\ UNCHANGED <<workvars, utcnow, prev>>

\* The details request with every answer stored, whatever its status.
DetailsResponseStoresAll(r) ==
    /\ epc = "details"
    /\ KeyAllows(r)
    /\ api_key' = KeyAfter(r)
    /\ epc' = "idle"
    /\ LET c == [call EXCEPT !.ndetails = @ + 1, !.dresp = r]
           key == get_cache_key("details", <<>>, call.tmdb_id)
           v == [kind |-> "details", id |-> call.tmdb_id]
       IN  /\ call' = Returned(c, IF r = "details" THEN "data" ELSE "nothing")
           /\ cache' = set_cache(cache, key, v, utcnow)
    /\ UNCHANGED <<workvars, utcnow, prev, got>>

\* The provider answers the details request with r: a 200 response is cached
\* and extract_enrichment_data gives the enrichment, anything else gives None.
DetailsResponse(r) ==
    /\ epc = "details"
    /\ KeyAllows(r)
    /\ api_key' = KeyAfter(r)
    /\ epc' = "idle"
    /\ LET c == [call EXCEPT !.ndetails = @ + 1, !.dresp = r]
           key == get_cache_key("details", <<>>, call.tmdb_id)
           v == [kind |-> "details", id |-> call.tmdb_id]
       IN  IF r = "details"
           THEN /\ call' = Returned(c, "data")
                /\ cache' = set_cache(cache, key, v, utcnow)
           ELSE /\ call' = Returned(c, "nothing")
                /\ UNCHANGED cache
    /\ UNCHANGED <<workvars, utcnow, prev, got>>

\* clear_cache() on a cache that holds something.
ClearCache ==
    /\ cache # EmptyCache
    /\ cache' = EmptyCache
    /\ call' = [call EXCEPT !.cleared = TRUE]
    /\ UNCHANGED <<workvars, api_key, utcnow, epc, prev, got>>

\* datetime.utcnow() moves on.
UtcSteps == {300}
UtcTick(d) ==
    /\ utcnow + d <= MaxUtc
    /\ utcnow' = utcnow + d
    /\ UNCHANGED <<workvars, api_key, cache, epc, call, prev, got>>

NextEnrich ==
    \/ \E title \in Titles, year \in Years : EnrichCall(title, year)
    \/ \E r \in SearchResponses, i \in Ids : SearchResponse(r, i)
    \/ \E r \in DetailsResponses : DetailsResponse(r)
    \/ ClearCache
    \/ \E d \in UtcSteps : UtcTick(d)

\* SpecEnrich: calls of enrich_movie_async through one TMDBClient, one after
\* the other.
SpecEnrich == Init /\ [][NextEnrich]_vars

\* -------------------------- enrich_movie_async from the tasks of a batch
taskrest == <<dbvars, upload, cyclevars, faults, clientvars, utcnow, epc, call,
              prev, got, match, gatevars, thread, is_running, morevars>>

\* Where a task stands after a step that left the call at `at`.
TaskAt(at) == IF at = "idle" THEN "over" ELSE at

\* The task t of the batch calls enrich_movie_async(title, year): as
\* EnrichCall, up to the first await on the provider. The tasks run on one
\* event loop: a task runs alone from one await to the next.
TaskCall(t, title, year) ==
    /\ atask[t].pc = "none"
    /\ LET c == [NoCall EXCEPT !.n = 1, !.title = title, !.year = year,
                               !.start = utcnow]
           key == get_cache_key("search", title, year)
           g == get_from_cache(cache, key, utcnow)
           a == AfterSearch(c, g.cache, g.value, utcnow)
       IN  IF title = <<>>
           THEN /\ atask' = [atask EXCEPT ![t] =
                                [pc |-> "over", call |-> Returned(c, "nothing")]]
                /\ UNCHANGED cache
           ELSE IF g.value # NoValue
           THEN /\ atask' = [atask EXCEPT ![t] =
                                [pc |-> TaskAt(a.epc), call |-> a.call]]
                /\ cache' = a.cache
           ELSE /\ atask' = [atask EXCEPT ![t] = [pc |-> "search", call |-> c]]
                /\ cache' = g.cache
    /\ UNCHANGED <<taskrest, api_key>>

\* The provider answers the search of task t: as SearchResponse.
TaskSearchResponse(t, r, i) ==
    /\ atask[t].pc = "search"
    /\ KeyAllows(r)
    /\ r \notin {"results", "malformed"} => i = CHOOSE j \in Ids : TRUE
    /\ api_key' = KeyAfter(r)
    /\ LET c == [atask[t].call EXCEPT !.nsearch = @ + 1, !.sresp = r]
           key == get_cache_key("search", c.title, c.year)
           v == [kind |-> r, id |-> IF r = "empty" THEN 0 ELSE i]
           ch == set_cache(cache, key, v, utcnow)
           a == AfterSearch(c, ch, v, utcnow)
       IN  IF r \in {"results", "empty", "malformed"}
           THEN /\ atask' = [atask EXCEPT ![t] =
                                [pc |-> TaskAt(a.epc), call |-> a.call]]
                /\ cache' = a.cache
           ELSE /\ atask' = [atask EXCEPT ![t] =
                                [pc |-> "over", call |-> Returned(c, "nothing")]]
                /\ UNCHANGED cache
    /\ UNCHANGED taskrest

\* The provider answers the details request of task t: as DetailsResponse.
TaskDetailsResponse(t, r) ==
    /\ atask[t].pc = "details"
    /\ KeyAllows(r)
    /\ api_key' = KeyAfter(r)
    /\ LET c == [atask[t].call EXCEPT !.ndetails = @ + 1, !.dresp = r]
           key == get_cache_key("details", <<>>, c.tmdb_id)
           v == [kind |-> "details", id |-> c.tmdb_id]
       IN  IF r = "details"
           THEN /\ atask' = [atask EXCEPT ![t] =
                                [pc |-> "over", call |-> Returned(c, "data")]]
                /\ cache' = set_cache(cache, key, v, utcnow)
           ELSE /\ atask' = [atask EXCEPT ![t] =
                                [pc |-> "over", call |-> Returned(c, "nothing")]]
                /\ UNCHANGED cache
    /\ UNCHANGED taskrest

NextTasks ==
    \/ \E t \in Tasks, title \in Titles, year \in Years : TaskCall(t, title, year)
    \/ \E t \in Tasks, r \in SearchResponses, i \in Ids : TaskSearchResponse(t, r, i)
    \/ \E t \in Tasks, r \in DetailsResponses : TaskDetailsResponse(t, r)

\* SpecTasks: the tasks of one batch calling enrich_movie_async through one
\* TMDBClient, each once.
SpecTasks == Init /\ [][NextTasks]_vars

\* ------------------------------------------- TMDBClient._find_best_match
\* popularity, in tenths: 0 is also what r.get("popularity", 0) gives for a
\* result without the key; 10 is the threshold 1.0.
Popularities == {0, 5, 10, 500, 600}
\* release_date: JSON null, the empty text (also what r.get("release_date",
\* "") gives for a result without the key), and two dates.
NullDate == <<"null">>
ReleaseDates == {NullDate, <<>>,
                 <<"1", "9", "9", "8", "-", "1", "2">>,
                 <<"1", "9", "9", "9", "-", "0", "3">>}
Candidates == [popularity : Popularities, release_date : ReleaseDates]
ResultLists == UNION {[1..n -> Candidates] : n \in 0..MaxCandidates}

\* str(year)
Digit(d) == <<"0", "1", "2", "3", "4", "5", "6", "7", "8", "9">>[d + 1]
RECURSIVE str(_)
str(n) == IF n < 10 THEN <<Digit(n)>> ELSE Append(str(n \div 10), Digit(n % 10))

\* release_date[:4]
Prefix4(date) == SubSeq(date, 1, Min(4, Len(date)))

\* The popularity test with >= for >.
PopularInclusive(r) == r.popularity >= 10

\* r.get("popularity", 0) > 1.0
Popular(r) == r.popularity > 10

\* The popularity filter with no way back to the whole list.
FilteredNoFallback(results) == SelectSeq(results, Popular)

\* filtered = [r for r in results if popular]; if not filtered: filtered =
\* results
Filtered(results) ==
    LET filtered == SelectSeq(results, Popular) IN
    IF filtered = <<>> THEN results ELSE filtered

\* r.get("release_date", "")[:4] == str(year)
InYear(r, year) == Prefix4(r.release_date) = str(year)

\* _find_best_match(results, title, year); year 0 stands for None (and is as
\* false as None in `if year:`). The slice of a null release_date raises
\* TypeError out of the year comprehension.
find_best_match(results, year) ==
    LET filtered == Filtered(results)
        year_matches == SelectSeq(filtered, LAMBDA r : InYear(r, year))
    IN  IF results = <<>>
        THEN [kind |-> "none", value |-> NoCandidate]
        ELSE IF year # 0 /\ \E i \in 1..Len(filtered) :
                               filtered[i].release_date = NullDate
        THEN [kind |-> "raise", value |-> NoCandidate]
        ELSE IF year # 0 /\ year_matches # <<>>
        THEN [kind |-> "match", value |-> year_matches[1]]
        ELSE IF filtered # <<>>
        THEN [kind |-> "match", value |-> filtered[1]]
        ELSE [kind |-> "none", value |-> NoCandidate]

\* _find_best_match is applied to a result list and a year, once in a run:
\* the function keeps nothing from one application to the next.
FindBestMatch(results, year) ==
    /\ ~match.called
    /\ match' = [called |-> TRUE, results |-> results, year |-> year,
                 out |-> find_best_match(results, year)]
    /\ UNCHANGED <<dbvars, upload, cyclevars, faults, clientvars, api_key,
                   enrichvars, gatevars, thread, is_running, morevars, atask>>

NextMatch ==
    /\ ~match.called
    /\ \E results \in ResultLists, year \in Years : FindBestMatch(results, year)

\* SpecMatch: _find_best_match on the result lists of the provider.
SpecMatch == Init /\ [][NextMatch]_vars

\* ------------------------------ TMDBClient: the gate of the async path
\* _get_rate_limiter making a semaphore on every call.
get_rate_limiter_fresh(limiter, made) ==
    [rate_limiter |-> Len(made) + 1, semaphores |-> Append(made, SemaphoreValue)]

\* _get_rate_limiter: the client's semaphore, made by the first call. The
\* coroutine has no await inside, so no other task runs in between.
get_rate_limiter(limiter, made) ==
    IF limiter = 0
    THEN [rate_limiter |-> Len(made) + 1, semaphores |-> Append(made, SemaphoreValue)]
    ELSE [rate_limiter |-> limiter, semaphores |-> made]

\* search_movie_async / get_movie_details_async after a cache miss:
\* rate_limiter = await self._get_rate_limiter()
GateEnter(t) ==
    /\ gate[t].pc = "idle"
    /\ LET g == get_rate_limiter(rate_limiter, semaphores) IN
        /\ rate_limiter' = g.rate_limiter
        /\ semaphores' = g.semaphores
        /\ gate' = [gate EXCEPT ![t] = [pc |-> "wait", sem |-> g.rate_limiter]]
    /\ UNCHANGED <<dbvars, upload, cyclevars, faults, clientvars, api_key,
                   enrichvars, match, thread, is_running, morevars, atask>>

\* async with rate_limiter: the task goes on when the semaphore's value is
\* above zero, and takes one; session.get is under way.
GateAcquire(t) ==
    /\ gate[t].pc = "wait"
    /\ semaphores[gate[t].sem] > 0
    /\ semaphores' = [semaphores EXCEPT ![gate[t].sem] = @ - 1]
    /\ gate' = [gate EXCEPT ![t].pc = "flight"]
    /\ UNCHANGED <<dbvars, upload, cyclevars, faults, clientvars, api_key,
                   enrichvars, match, rate_limiter, thread, is_running, morevars, atask>>

\* The provider's answer or a failure ends the call; leaving the async with
\* block gives the semaphore's unit back.
GateRelease(t) ==
    /\ gate[t].pc = "flight"
    /\ semaphores' = [semaphores EXCEPT ![gate[t].sem] = @ + 1]
    /\ gate' = [gate EXCEPT ![t] = NoGate]
    /\ UNCHANGED <<dbvars, upload, cyclevars, faults, clientvars, api_key,
                   enrichvars, match, rate_limiter, thread, is_running, morevars, atask>>

NextGate ==
    \/ \E t \in GateTasks : GateEnter(t)
    \/ \E t \in GateTasks : GateAcquire(t)
    \/ \E t \in GateTasks : GateRelease(t)

\* SpecGate: tasks of one event loop calling the provider through one
\* TMDBClient.
SpecGate == Init /\ [][NextGate]_vars

\* ------------------- TMDBClient._wait_for_rate_limit called from threads
\* The instants at which the clock is looked at (tenths of a second).
Instants == {0, 99, 100, 101, 300}

\* _request_times after n calls of _wait_for_rate_limit made one after the
\* other within the instant t: the first half of the calls, then the rest on
\* the list they left.
RECURSIVE Calls(_, _, _)
Calls(times, t, n) ==
    IF n = 0 THEN times
    ELSE IF n = 1 THEN wait_for_rate_limit(times, t, 0).times
    ELSE LET half == Calls(times, t, n \div 2)
         IN  IF Len(half) >= 0 THEN Calls(half, t, n - n \div 2) ELSE half

threadrest == <<dbvars, upload, cyclevars, faults, slept, net_times, api_key,
                enrichvars, match, gatevars, is_running, morevars, atask>>

\* Before the threads start, one caller makes REQUEST_LIMIT - 1 requests one
\* after the other within the first instant: none of them waits.
Burst ==
    /\ now = 0
    /\ request_times = <<>>
    /\ \A t \in Threads : thread[t] = NoThread
    /\ request_times' = Calls(request_times, now, REQUEST_LIMIT - 1)
    /\ recorded' = request_times'
    /\ UNCHANGED <<threadrest, now, thread>>

\* A thread enters _wait_for_rate_limit: now = time.time(), cutoff, and the
\* list comprehension over self._request_times (lines 72-76, right side).
ThreadCall(t) ==
    /\ thread[t].pc = "idle"
    /\ thread[t].n < MaxThreadCalls
    /\ thread' = [thread EXCEPT ![t] = [@ EXCEPT !.pc = "assign",
                                                  !.cutoff = now - Window,
                                                  !.kept = InWindow(request_times, now)]]
    /\ UNCHANGED <<threadrest, now, request_times, recorded>>

\* self._request_times = <the list built> (line 76, the store).
ThreadAssign(t) ==
    /\ thread[t].pc = "assign"
    /\ request_times' = thread[t].kept
    /\ thread' = [thread EXCEPT ![t] = [@ EXCEPT !.pc = "check", !.kept = <<>>]]
    /\ UNCHANGED <<threadrest, now, recorded>>

\* if len(self._request_times) >= self.REQUEST_LIMIT (line 79)
ThreadCheck(t) ==
    /\ thread[t].pc = "check"
    /\ thread' = [thread EXCEPT ![t].pc =
                      IF AtLimit(Len(request_times)) THEN "first" ELSE "append"]
    /\ UNCHANGED <<threadrest, now, request_times, recorded>>

\* wait_time = self._request_times[0] - cutoff + 0.1; if wait_time > 0 the
\* thread goes to sleep (lines 80-83). Indexing an empty list raises
\* IndexError.
ThreadFirst(t) ==
    /\ thread[t].pc = "first"
    /\ thread' = [thread EXCEPT ![t] =
          IF request_times = <<>> THEN [@ EXCEPT !.pc = "error"]
          ELSE LET wait_time == request_times[1] - thread[t].cutoff + Margin IN
               IF wait_time > 0
               THEN [@ EXCEPT !.pc = "sleep", !.wake = now + wait_time]
               ELSE [@ EXCEPT !.pc = "append"]]
    /\ UNCHANGED <<threadrest, now, request_times, recorded>>

\* time.sleep returns at the instant i, not before the time asked for, and
\* the list is pruned again (line 85).
ThreadWake(t, i) ==
    /\ thread[t].pc = "sleep"
    /\ i >= thread[t].wake
    /\ i >= now
    /\ now' = i
    /\ request_times' = InWindow(request_times, i)
    /\ recorded' = InWindow(recorded, i)
    /\ thread' = [thread EXCEPT ![t] = [@ EXCEPT !.pc = "append", !.wake = 0]]
    /\ UNCHANGED threadrest

\* self._request_times.append(time.time()) (line 88): the call returns.
ThreadAppend(t) ==
    /\ thread[t].pc = "append"
    /\ request_times' = Append(request_times, now)
    /\ recorded' = Append(recorded, now)
    /\ thread' = [thread EXCEPT ![t] = [@ EXCEPT !.pc = "idle", !.n = @ + 1,
                                                  !.cutoff = 0]]
    /\ UNCHANGED <<threadrest, now>>

\* The IndexError leaves _wait_for_rate_limit and _make_request; the except
\* clause of search_movie logs it and returns None.
ThreadRaise(t) ==
    /\ thread[t].pc = "error"
    /\ thread' = [thread EXCEPT ![t] = [@ EXCEPT !.pc = "idle", !.n = @ + 1,
                                                  !.cutoff = 0]]
    /\ UNCHANGED <<threadrest, now, request_times, recorded>>

\* Time passes to a later instant.
ThreadTick(i) ==
    /\ i > now
    /\ now' = i
    /\ recorded' = InWindow(recorded, i)
    /\ UNCHANGED <<threadrest, request_times, thread>>

NextThreads ==
    \/ Burst
    \/ \E t \in Threads : ThreadCall(t)
    \/ \E t \in Threads : ThreadAssign(t)
    \/ \E t \in Threads : ThreadCheck(t)
    \/ \E t \in Threads : ThreadFirst(t)
    \/ \E t \in Threads : \E i \in Instants \cup {thread[t].wake, now} : ThreadWake(t, i)
    \/ \E t \in Threads : ThreadAppend(t)
    \/ \E t \in Threads : ThreadRaise(t)
    \/ \E i \in Instants : ThreadTick(i)

\* SpecThreads: two threads calling the synchronous path of one TMDBClient.
SpecThreads == Init /\ [][NextThreads]_vars

\* ------------------------------- enrich_movie, the synchronous pipeline
\* KeyAllows and KeyAfter for the verdict k in place of api_key.
AllowsUnder(k, r) ==
    IF r = "401" THEN k # "accepted"
    ELSE IF r \in Transient THEN TRUE ELSE k # "rejected"
AfterUnder(k, r) ==
    IF r = "401" THEN "rejected"
    ELSE IF r \in Transient THEN k ELSE "accepted"

\* search_movie(title, year) on the cache ch at the instant t, the provider
\* answering r (best match of id i) if it is asked: the value returned, the
\* cache left, whether the cache was read and whether a request was made.
\* What is stored on success is the best match, not the response.
search_movie(ch, title, year, r, i, t) ==
    LET key == get_cache_key("search", title, year)
        g == get_from_cache(ch, key, t)
        best == [kind |-> "match", id |-> i]
    IN  IF title = <<>>
        THEN [value |-> NoValue, cache |-> ch, read |-> FALSE, net |-> 0]
        ELSE IF g.value # NoValue
        THEN [value |-> g.value, cache |-> g.cache, read |-> TRUE, net |-> 0]
        ELSE IF r = "results" \/ (r = "malformed" /\ year = 0)
        THEN [value |-> best, cache |-> set_cache(g.cache, key, best, t),
              read |-> TRUE, net |-> 1]
        ELSE [value |-> NoValue, cache |-> g.cache, read |-> TRUE, net |-> 1]

\* search_result.get('id'): the id of a best match; None (0) for a dict
\* without the key, as the response search_movie_async stores.
IdOf(v) == IF v.kind = "match" THEN v.id ELSE 0

\* get_movie_details(tmdb_id), the provider answering d if it is asked.
get_movie_details(ch, tmdb_id, d, t) ==
    LET key == get_cache_key("details", <<>>, tmdb_id)
        g == get_from_cache(ch, key, t)
        v == [kind |-> "details", id |-> tmdb_id]
    IN  IF tmdb_id <= 0
        THEN [value |-> NoValue, cache |-> ch, read |-> FALSE, net |-> 0]
        ELSE IF g.value # NoValue
        THEN [value |-> g.value, cache |-> g.cache, read |-> TRUE, net |-> 0]
        ELSE IF d = "details"
        THEN [value |-> v, cache |-> set_cache(g.cache, key, v, t),
              read |-> TRUE, net |-> 1]
        ELSE [value |-> NoValue, cache |-> g.cache, read |-> TRUE, net |-> 1]

\* n times the instant t.
Stamps(t, n) == [k \in 1..n |-> t]

\* enrich_movie(title, year): search_movie, get_movie_details on the id of
\* what the search returned, extract_enrichment_data. The call blocks its
\* thread until it returns; each request passes _wait_for_rate_limit.
EnrichMovieSync(title, year, r, i, d) ==
    LET s == search_movie(cache, title, year, r, i, utcnow)
        found == s.value # NoValue
        tmdb_id == IdOf(s.value)
        g == IF found
             THEN get_movie_details(s.cache, tmdb_id, d, utcnow)
             ELSE [value |-> NoValue, cache |-> s.cache, read |-> FALSE, net |-> 0]
        key1 == IF s.net = 1 THEN AfterUnder(api_key, r) ELSE api_key
        skey == get_cache_key("search", title, year)
        dkey == get_cache_key("details", <<>>, tmdb_id)
    IN  /\ epc = "idle"
        /\ call.n < MaxCalls
        /\ s.net = 1 => AllowsUnder(api_key, r)
        /\ s.net = 0 => r = "results"
        /\ (s.net = 0 \/ r \notin {"results", "malformed"}) => i = CHOOSE j \in Ids : TRUE
        /\ g.net = 1 => AllowsUnder(key1, d)
        /\ g.net = 0 => d = "details"
        /\ Len(request_times) + s.net + g.net < REQUEST_LIMIT
        /\ api_key' = IF g.net = 1 THEN AfterUnder(key1, d) ELSE key1
        /\ prev' = PrevOf(call)
        /\ sync_calls' = sync_calls \cup {call.n + 1}
        /\ cache' = g.cache
        /\ call' = [NoCall EXCEPT
                       !.n = call.n + 1, !.title = title, !.year = year,
                       !.start = utcnow,
                       !.nsearch = s.net, !.ndetails = g.net,
                       !.sresp = IF s.net = 1 THEN r ELSE "none",
                       !.dresp = IF g.net = 1 THEN d ELSE "none",
                       !.tmdb_id = IF found THEN tmdb_id ELSE 0,
                       !.result = IF g.value # NoValue THEN "data" ELSE "nothing"]
        /\ got' = [search |-> IF s.read THEN LookupOf(cache, skey, utcnow)
                              ELSE NoLookup,
                   details |-> IF g.read THEN LookupOf(s.cache, dkey, utcnow)
                               ELSE NoLookup]
        /\ request_times' = Calls(request_times, now, s.net + g.net)
        /\ recorded' = recorded \o Stamps(now, s.net + g.net)
        /\ net_times' = net_times \o Stamps(now, s.net + g.net)
        /\ slept' = 0
        /\ UNCHANGED <<dbvars, upload, cyclevars, faults, now, utcnow, epc,
                       match, gatevars, thread, is_running, atask, loop,
                       extract, lookup, movie_rows>>

NextPaths ==
    \/ \E title \in Titles, year \in Years : EnrichCall(title, year)
    \/ \E r \in SearchResponses, i \in Ids : SearchResponse(r, i)
    \/ \E r \in DetailsResponses : DetailsResponse(r)
    \/ \E title \in Titles, year \in Years, r \in SearchResponses, i \in Ids,
          d \in DetailsResponses : EnrichMovieSync(title, year, r, i, d)

\* SpecPaths: calls of enrich_movie and of enrich_movie_async through one
\* TMDBClient, one after the other.
SpecPaths == Init /\ [][NextPaths]_vars

\* ------------------------------------------- the batches of enrich_session_async
\* What the batch loop, the normalisation and the direct lookups below leave
\* alone.
basevars == <<dbvars, upload, cyclevars, faults, clientvars, api_key, enrichvars,
              match, gatevars, thread, is_running, atask, sync_calls>>

\* batch_size = 10, the literal of enrich_session_async.
batch_size == 10
\* The longest list of unenriched movies the loop is run on.
MaxItems == 35

\* A slice one item short of batch_size.
SliceShort(list, batch_start) ==
    SubSeq(list, batch_start + 1, Min(batch_start + batch_size - 1, Len(list)))

\* unenriched_movies[batch_start:batch_start + batch_size]
Slice(list, batch_start) ==
    SubSeq(list, batch_start + 1, Min(batch_start + batch_size, Len(list)))

\* enrich_session_async has fetched n unenriched movies (the rows 1..n): with
\* none it marks the session completed and returns, otherwise it enters the
\* loop `for batch_start in range(0, len(unenriched_movies), batch_size)`.
LoopEnter(n) ==
    /\ loop.pc = "none"
    /\ loop' = [pc |-> IF n = 0 THEN "done" ELSE "loop",
                items |-> [i \in 1..n |-> i], batch_start |-> 0,
                batches |-> <<>>]
    /\ UNCHANGED <<basevars, extract, lookup, movie_rows>>

\* One turn of the loop: the slice is taken, its tasks are gathered, and
\* range() moves batch_start on by batch_size.
LoopBatch ==
    /\ loop.pc = "loop"
    /\ loop.batch_start < Len(loop.items)
    /\ loop' = [loop EXCEPT !.batches = Append(@, Slice(loop.items, loop.batch_start)),
                            !.batch_start = @ + batch_size]
    /\ UNCHANGED <<basevars, extract, lookup, movie_rows>>

\* range() is exhausted: the loop is left.
LoopExit ==
    /\ loop.pc = "loop"
    /\ loop.batch_start >= Len(loop.items)
    /\ loop' = [loop EXCEPT !.pc = "done"]
    /\ UNCHANGED <<basevars, extract, lookup, movie_rows>>

NextBatch ==
    \/ /\ loop.pc = "none"
       /\ \E n \in 0..MaxItems : LoopEnter(n)
    \/ LoopBatch
    \/ LoopExit

SpecBatch == Init /\ [][NextBatch]_vars

\* ------------------------------------------------- extract_enrichment_data
\* The longest crew list and the longest cast list normalised.
MaxCrew == 4
MaxCast == 6

\* Names as the provider gives them: none or empty, a name, a name with a
\* trailing blank.
Names == {<<>>, <<"a">>, <<"b", " ">>}
Jobs == {"Director", "Writer"}
CrewEntries == [job : Jobs, name : Names]
CastEntries == [name : Names]
SeqsUpTo(S, n) == UNION {[1..k -> S] : k \in 0..n}

\* The values of a dict: None, a number (held in a sequence of one), a string
\* or a list.
NoneCell == [type |-> "none", v |-> <<>>]
Num(n) == [type |-> "int", v |-> <<n>>]
Text(t) == [type |-> "str", v |-> t]
List(l) == [type |-> "list", v |-> l]
\* What the provider gives for a numeric field: nothing, zero, a value.
NumCells == {NoneCell, Num(0), Num(136)}

\* [f(x) for x in list]
MapStrip(list) == [i \in 1..Len(list) |-> Strip(list[i].name)]
\* list[:n]
FirstN(list, n) == SubSeq(list, 1, Min(n, Len(list)))

\* _extract_genres
extract_genres(genres) ==
    MapStrip(SelectSeq(genres, LAMBDA g : g.name # <<>>))

\* Directors with no limit on their number.
extract_directors_unlimited(crew) ==
    MapStrip(SelectSeq(crew, LAMBDA person :
                 person.job = "Director" /\ person.name # <<>>))

\* _extract_directors
extract_directors(crew) ==
    FirstN(MapStrip(SelectSeq(crew, LAMBDA person :
                      person.job = "Director" /\ person.name # <<>>)), 3)

\* _extract_cast
extract_cast(cast) ==
    FirstN(MapStrip(SelectSeq(cast, LAMBDA person : person.name # <<>>)), 5)

\* _extract_country
extract_country(production_countries) ==
    IF production_countries = <<>> THEN NoneCell
    ELSE IF production_countries[1].name # <<>>
         THEN Text(Strip(production_countries[1].name))
         ELSE NoneCell

\* extract_enrichment_data: the dict of eleven keys, then the filter that
\* drops the None values and the empty lists.
extract_enrichment_data(movie_details) ==
    LET enrichment ==
            [tmdb_id |-> movie_details.id,
             genres |-> List(extract_genres(movie_details.genres)),
             directors |-> List(extract_directors(movie_details.crew)),
             cast |-> List(extract_cast(movie_details.cast)),
             runtime |-> movie_details.runtime,
             budget |-> movie_details.budget,
             revenue |-> movie_details.revenue,
             popularity |-> movie_details.popularity,
             vote_average |-> movie_details.vote_average,
             original_language |-> movie_details.original_language,
             country |-> extract_country(movie_details.production_countries)]
        kept == {k \in DOMAIN enrichment :
                    /\ enrichment[k].type # "none"
                    /\ enrichment[k].type = "list" => Len(enrichment[k].v) > 0}
    IN [k \in kept |-> enrichment[k]]

\* The details responses normalised.
Details ==
    [id : {Num(603)},
     genres : {<<>>, <<[name |-> <<"a">>]>>},
     crew : {<<>>, <<[job |-> "Director", name |-> <<"a">>]>>},
     cast : {<<>>, <<[name |-> <<"a">>]>>},
     runtime : NumCells, budget : NumCells, revenue : NumCells,
     popularity : {NoneCell, Num(0)},
     vote_average : {NoneCell, Num(0)},
     original_language : {NoneCell, Text(<<"a">>)},
     production_countries : {<<>>, <<[name |-> <<"a">>]>>}]

ExtractDirectors(crew) ==
    /\ extract.fn = "none"
    /\ extract' = [fn |-> "_extract_directors", arg |-> crew,
                   out |-> extract_directors(crew)]
    /\ UNCHANGED <<basevars, loop, lookup, movie_rows>>

ExtractCast(cast) ==
    /\ extract.fn = "none"
    /\ extract' = [fn |-> "_extract_cast", arg |-> cast,
                   out |-> extract_cast(cast)]
    /\ UNCHANGED <<basevars, loop, lookup, movie_rows>>

ExtractEnrichmentData(movie_details) ==
    /\ extract.fn = "none"
    /\ extract' = [fn |-> "extract_enrichment_data", arg |-> movie_details,
                   out |-> extract_enrichment_data(movie_details)]
    /\ UNCHANGED <<basevars, loop, lookup, movie_rows>>

NextExtract ==
    /\ extract.fn = "none"
    /\ \/ \E crew \in SeqsUpTo(CrewEntries, MaxCrew) : ExtractDirectors(crew)
       \/ \E cast \in SeqsUpTo(CastEntries, MaxCast) : ExtractCast(cast)
       \/ \E movie_details \in Details : ExtractEnrichmentData(movie_details)

SpecExtract == Init /\ [][NextExtract]_vars

\* ------------------------------ search_movie_async, get_movie_details_async
\* The direct calls of the two lookups made in one run.
MaxLookups == 2

\* What a caller may pass as the title: a string (empty, a title, a blank),
\* None, or a number; and as the tmdb_id: an int, a string of digits, a
\* float, or None.
TitleArgs == [type : {"str"}, v : {<<>>, <<"M">>, <<" ">>}]
                 \cup [type : {"none", "int"}, v : {<<>>}]
IdArgs == [type : {"int"}, v : {-1, 0, 603}]
              \cup [type : {"str", "float"}, v : {603}]
              \cup [type : {"none"}, v : {0}]

\* The test on the id without the test of its type.
invalid_id_untyped(tmdb_id) == tmdb_id.v <= 0

\* not isinstance(tmdb_id, int) or tmdb_id <= 0
invalid_id(tmdb_id) == tmdb_id.type # "int" \/ tmdb_id.v <= 0

\* not title or not isinstance(title, str)
invalid_title(title) ==
    \/ title.type = "none"
    \/ title.type = "str" /\ title.v = <<>>
    \/ title.type # "str"

lookuprest == <<dbvars, upload, cyclevars, faults, clientvars, utcnow, epc,
                call, prev, got, match, gatevars, thread, is_running, atask,
                sync_calls, loop, extract, movie_rows>>

\* search_movie_async(title, year) up to its first await: the test of the
\* title, then the cache.
SearchMovieAsync(title, year) ==
    /\ lookup.pc \in {"none", "done"}
    /\ lookup.n < MaxLookups
    /\ LET l == [NoDirect EXCEPT !.n = lookup.n + 1,
                                 !.fn = "search_movie_async",
                                 !.title = title, !.year = year]
           key == get_cache_key("search", title.v, year)
           g == get_from_cache(cache, key, utcnow)
       IN  IF invalid_title(title)
           THEN /\ lookup' = [l EXCEPT !.pc = "done", !.result = "nothing"]
                /\ UNCHANGED cache
           ELSE /\ cache' = g.cache
                /\ lookup' = IF g.value # NoValue
                             THEN [l EXCEPT !.pc = "done", !.read = TRUE,
                                            !.result = "cached"]
                             ELSE [l EXCEPT !.pc = "semaphore", !.read = TRUE]
    /\ UNCHANGED <<lookuprest, api_key>>

\* get_movie_details_async(tmdb_id) up to its first await: the test of the
\* id, then the cache.
GetMovieDetailsAsync(tmdb_id) ==
    /\ lookup.pc \in {"none", "done"}
    /\ lookup.n < MaxLookups
    /\ LET l == [NoDirect EXCEPT !.n = lookup.n + 1,
                                 !.fn = "get_movie_details_async",
                                 !.tmdb_id = tmdb_id]
           key == get_cache_key("details", <<>>, tmdb_id.v)
           g == get_from_cache(cache, key, utcnow)
       IN  IF invalid_id(tmdb_id)
           THEN /\ lookup' = [l EXCEPT !.pc = "done", !.result = "nothing"]
                /\ UNCHANGED cache
           ELSE /\ cache' = g.cache
                /\ lookup' = IF g.value # NoValue
                             THEN [l EXCEPT !.pc = "done", !.read = TRUE,
                                            !.result = "cached"]
                             ELSE [l EXCEPT !.pc = "semaphore", !.read = TRUE]
    /\ UNCHANGED <<lookuprest, api_key>>

\* `async with rate_limiter`: the lookup takes the semaphore.
LookupAcquire ==
    /\ lookup.pc = "semaphore"
    /\ lookup' = [lookup EXCEPT !.pc = "request", !.sem = @ + 1]
    /\ UNCHANGED <<lookuprest, api_key, cache>>

\* session.get: the provider answers r; a 200 response is cached and
\* returned, anything else gives None. The semaphore is given back.
LookupResponse(r) ==
    /\ lookup.pc = "request"
    /\ KeyAllows(r)
    /\ r \in IF lookup.fn = "search_movie_async"
             THEN SearchResponses ELSE DetailsResponses
    /\ api_key' = KeyAfter(r)
    /\ LET key == IF lookup.fn = "search_movie_async"
                  THEN get_cache_key("search", lookup.title.v, lookup.year)
                  ELSE get_cache_key("details", <<>>, lookup.tmdb_id.v)
           v == [kind |-> r, id |-> IF r = "empty" THEN 0 ELSE CHOOSE j \in Ids : TRUE]
       IN  IF Went(r) = "ok"
           THEN /\ cache' = set_cache(cache, key, v, utcnow)
                /\ lookup' = [lookup EXCEPT !.pc = "done", !.net = @ + 1,
                                            !.result = "response"]
           ELSE /\ lookup' = [lookup EXCEPT !.pc = "done", !.net = @ + 1,
                                            !.result = "nothing"]
                /\ UNCHANGED cache
    /\ UNCHANGED lookuprest

NextLookup ==
    \/ /\ lookup.pc \in {"none", "done"}
       /\ lookup.n < MaxLookups
       /\ \/ \E title \in TitleArgs, year \in Years : SearchMovieAsync(title, year)
          \/ \E tmdb_id \in IdArgs : GetMovieDetailsAsync(tmdb_id)
    \/ LookupAcquire
    \/ \E r \in SearchResponses \cup DetailsResponses : LookupResponse(r)

SpecLookup == Init /\ [][NextLookup]_vars

\* ---------------------------------------------------------------- claims
\* C21: _find_best_match keeps the candidates whose popularity is above 1.0,
\* or all of them when none is; it returns the first of those released in
\* the year asked for, and the first of those when no year is asked for or
\* none was released in it. (A null release_date among them with a year asked
\* for raises instead of returning.)
Survivors(results) ==
    LET above == {i \in 1..Len(results) : results[i].popularity > 10} IN
    IF above = {} THEN 1..Len(results) ELSE above
First(set) == CHOOSE i \in set : \A j \in set : i <= j
InFlight == {t \in GateTasks : gate[t].pc = "flight"}
C24_NeverErrors == \A t \in Threads : thread[t].pc # "error"

\* C25: with threads calling _wait_for_rate_limit side by side, the calls
\* recorded within the trailing 10 seconds still never exceed 40.
C25_WindowBoundThreads == Len(InWindow(recorded, now)) <= REQUEST_LIMIT

\* C26: update_movie_enrichment writes a movie at most once: no cycle, later
\* or concurrent, writes a movie that is already marked tmdb_enriched.
C26_WrittenOnce ==
    [][\A p \in Procs, m \in Movies :
          (task[p][m] = "save" /\ task'[p][m] = "inc" /\ faults' = faults) =>
              ~tmdb_enriched[m]]_vars

\* C27: a batch is joined before the next one starts: while a task of a batch
\* runs, every task of the batches before it is over, its progress increment
\* included, no task of a later batch has started, and no more tasks than the
\* batch size run.
Running(m) == task["sched"][m] \in {"client", "save", "inc", "write"}
C27_BatchesJoined ==
    /\ Cardinality({m \in Movies : Running(m)}) <= BatchSize
    /\ \A i \in 1..Len(fetched["sched"]) :
          LET m == fetched["sched"][i] IN
          /\ i <= pos["sched"] => task["sched"][m] \in {"done", "incfail"}
          /\ Running(m) => (pos["sched"] < i /\ i <= pos["sched"] + BatchSize)
          /\ i > pos["sched"] + BatchSize => task["sched"][m] = "none"
\* C27 witness: the second batch of a cycle runs, and in the first batch one
\* task had its progress increment fail.
C27_Witness ==
    /\ pc["sched"] = "batch"
    /\ pos["sched"] = BatchSize
    /\ \E m \in Movies : Running(m)
    /\ \E i \in 1..BatchSize : task["sched"][fetched["sched"][i]] = "incfail"

\* C28: once the scheduler has been told to stop, the running cycle starts no
\* further batch.
C28_NoBatchAfterStop ==
    [][~is_running => ~(pos'["sched"] > pos["sched"])]_vars

\* C29: when a cycle marks the session completed, enriched_count equals
\* total_movies, also when a task's progress increment raised a storage
\* error that the task swallowed.
C29_CompletedMeansAllCounted ==
    [][(pc["sched"] = "status" /\ pc'["sched"] = "idle"
            /\ status' = "completed" /\ fetched["sched"] # <<>>) =>
          enriched_count' = total_movies']_vars

\* C30: two tasks of a batch that enrich the same (title, year) make at most
\* one search request and at most one details request that the provider
\* answers with 200 between them: the second task is served from the cache.
C30_OneCallPerKey ==
    \A a, b \in Tasks :
        (a # b /\ atask[a].call.n > 0 /\ atask[b].call.n > 0
             /\ atask[a].call.title = atask[b].call.title
             /\ atask[a].call.year = atask[b].call.year) =>
            /\ ~(Went(atask[a].call.sresp) = "ok" /\ Went(atask[b].call.sresp) = "ok")
            /\ ~(Went(atask[a].call.dresp) = "ok" /\ Went(atask[b].call.dresp) = "ok")

\* C3: the calls recorded in the rate window within the trailing 10 seconds
\* never exceed 40, and _request_times holds no more than that either.
C3_WindowBound ==
    /\ Len(recorded) <= REQUEST_LIMIT
    /\ Len(InWindow(request_times, now)) <= REQUEST_LIMIT

\* C3 witness: a call found the window full, slept until the oldest entry
\* left it, and its own entry filled the window again.
C3_Witness ==
    /\ slept > 0
    /\ Len(recorded) = REQUEST_LIMIT
    /\ recorded[REQUEST_LIMIT] = now

\* C4: every network call of the trailing window, of the synchronous and of
\* the asynchronous path, has its entry in the rate window, so that the
\* calls made within the window are at most 40.
C4_EveryCallRecorded ==
    /\ net_times = recorded
    /\ Len(net_times) <= REQUEST_LIMIT

\* The items of the scheduled cycle's batch in flight.
BatchItems == Range(Batch(fetched["sched"], pos["sched"]))
\* The batch in flight has been joined: every task of it is over.
Joined == pc["sched"] = "batch" /\ \A m \in BatchItems : Finished("sched", m)

\* C1: the N concurrent tasks of a batch whose increment_enriched_count call
\* returned leave enriched_count exactly N higher than it was when the batch
\* was launched, whatever the interleaving of their reads and writes.
C1_NoLostIncrement ==
    Joined =>
        enriched_count =
            count0 + Cardinality({m \in BatchItems : task["sched"][m] = "done"})

\* C2: after the join of a batch of N items of which M failed enrichment,
\* with no storage error raised, the counter is N higher than at the launch
\* and exactly the N - M items the client gave data for are persisted.
C2_BatchCounts ==
    (Joined /\ faults = 0) =>
        /\ enriched_count = count0 + Cardinality(BatchItems)
        /\ {m \in BatchItems : tmdb_enriched[m]}
              = {m \in BatchItems : out["sched"][m] = "data"}

\* C5: 0 <= enriched_count <= total_movies in every reachable state.
C5_CountWithinTotal == 0 <= enriched_count /\ enriched_count <= total_movies

\* C6: a session never has two enrichment cycles in flight at once.
C6_OneCycleInFlight == ~(pc["sched"] # "idle" /\ pc["force"] # "idle")

\* C7: the status writes of a cycle are monotonic: a cycle changes the
\* status only from enriching, and only to completed or failed; a completed
\* or failed session keeps its status.
C7_StatusMonotonic ==
    [][\A p \in Procs :
          (pc[p] = "status" /\ pc'[p] = "idle" /\ status' # status) =>
              (status = "enriching" /\ status' \in {"completed", "failed"})]_vars

\* C8: a cycle that an error escaped from (the fetch of the unenriched items
\* or the status write raised) leaves the session failed with a non-empty
\* error message.
C8_EscapedErrorFails ==
    \A p \in Procs :
        ended[p] = "caught" => (status = "failed" /\ error_message # "")

\* C9: a cycle that finds no unenriched item on an enriching session sets it
\* completed, having called the client for no item and started no task (so
\* no rate-limiter use and no counter increment).
C9_EmptyCycleCompletes ==
    [][\A p \in Procs :
          (pc[p] = "status" /\ fetched[p] = <<>> /\ status = "enriching"
                /\ pc'[p] = "idle") =>
              /\ status' = "completed"
              /\ invoked[p] = Zeros
              /\ task[p] = NoTasks
              /\ enriched_count' = enriched_count]_vars

\* C9 witness: a scheduled cycle found nothing to enrich on a session whose
\* movies were all enriched already, and completed it.
C9_Witness ==
    /\ ended["sched"] = "empty"
    /\ status = "completed"
    /\ total_movies > 0

\* C10: in a cycle the client is invoked at most once per item, and when the
\* batches are through it has been invoked exactly once for every item that
\* get_unenriched_movies returned and for no other.
C10_EachItemOnce ==
    \A p \in Procs :
        /\ \A m \in Movies : invoked[p][m] <= 1
        /\ pc[p] \in {"status", "except"} /\ fetched[p] # <<>> =>
              \A m \in Movies :
                  invoked[p][m] = IF m \in Range(fetched[p]) THEN 1 ELSE 0

\* C10 witness: a cycle of two batches is through; in the first batch one
\* item raised and one got nothing, the item of the second batch got data.
C10_Witness ==
    /\ pc["sched"] = "status"
    /\ Len(fetched["sched"]) > BatchSize
    /\ \E a, b \in Range(Batch(fetched["sched"], 0)) :
          out["sched"][a] = "raise" /\ out["sched"][b] = "nothing"
    /\ \E c \in Range(Batch(fetched["sched"], BatchSize)) :
          out["sched"][c] = "data" /\ tmdb_enriched[c]

\* C11: a cycle whose items fail enrichment (None or an exception for each)
\* is not held up by them: every cycle that launched a batch reaches its
\* status write, whatever the client gave for the items, and the status
\* write that returns leaves the session completed.
C11_AllFailCompletes ==
    /\ (pc["sched"] = "batch") ~> (pc["sched"] = "status")
    /\ [][(pc["sched"] = "status" /\ pc'["sched"] = "idle")
              => status' = "completed"]_vars

\* C11 witness: a cycle of more than one batch ended with the session
\* completed and not one of its movies enriched, no storage error raised.
C11_Witness ==
    /\ ended["sched"] = "completed"
    /\ status = "completed"
    /\ faults = 0
    /\ total_movies > BatchSize
    /\ \A m \in 1..total_movies : ~tmdb_enriched[m]

\* The last call of enrich_movie_async has returned to its caller.
Over == epc = "idle" /\ call.n > 0

\* C12: a provider call that failed transiently (timeout, connection error,
\* 429) on its first attempt is attempted again (after 1 s, then 2 s) before
\* the client returns, so that a success on the third attempt reaches the
\* caller: no call returns with one attempt made and a transient answer to it.
C12_TransientRetried ==
    Over =>
        /\ call.sresp \in Transient => call.nsearch >= 2
        /\ call.dresp \in Transient => call.ndetails >= 2

\* C13: a 429 on the first attempt of an item's provider call does not by
\* itself give the caller the "nothing" that the orchestrator counts as a
\* processed item: the call was attempted again first.
C13_CapacityNotTerminal ==
    (Over /\ call.result = "nothing") =>
        /\ ~(call.sresp = "429" /\ call.nsearch = 1)
        /\ ~(call.dresp = "429" /\ call.ndetails = 1)

\* C14: a transient fault still failing after the allowed attempts reaches
\* the caller of enrich_movie_async as an error, not as the "nothing" that a
\* not-found gives.
C14_TransientIsError ==
    (Over /\ (call.sresp \in Transient \/ call.dresp \in Transient)) =>
        call.result = "raise"

\* C15: when the search yields no usable candidate (404, or an empty result
\* list, fresh or cached) or the details request returns 404,
\* enrich_movie_async returns nothing and raises no error, and after a search
\* without candidate no details lookup and no details call is made.
C15_NotFoundIsNothing ==
    Over =>
        /\ (call.sresp = "404" \/ call.sresp = "empty"
                \/ got.search.value.kind = "empty") =>
              /\ call.result = "nothing"
              /\ call.ndetails = 0
              /\ ~got.details.done
        /\ call.dresp = "404" => call.result = "nothing"

\* C15 witness: a second call found the empty result list of the first in
\* the cache and returned nothing with no network call at all.
C15_Witness ==
    /\ Over
    /\ got.search.value.kind = "empty"
    /\ call.nsearch = 0
    /\ call.ndetails = 0
    /\ call.result = "nothing"

\* C16: once the provider has rejected the api_key (401), the run is
\* aborted: no further item of the session is sent to the client, and no
\* cycle sets the session completed.
C16_AuthRejectionAborts ==
    [][api_key = "rejected" =>
          /\ \A p \in Procs, m \in Movies : invoked'[p][m] <= invoked[p][m]
          /\ status' = "completed" => status = "completed"]_vars

\* The lookups of the last call.
Lookups == {l \in {got.search, got.details} : l.done}

\* C17: a get that follows a set of its key within the TTL, with no clear in
\* between, returns exactly the value stored: a lookup that found an entry
\* younger than 600 s under its key returned that entry's value.
C17_FreshGetReturnsStored ==
    \A l \in Lookups :
        (l.held # NoValue /\ l.at - l.held_at < CACHE_TTL) => l.value = l.held

\* C17 witness: a lookup made some time after the set, within the TTL, that
\* returned the stored value.
C17_Witness ==
    \E l \in Lookups :
        /\ l.held # NoValue
        /\ l.at > l.held_at
        /\ l.at - l.held_at < CACHE_TTL
        /\ l.value = l.held

\* C18: the cache never returns an expired entry: a lookup that returned a
\* value was made strictly before the entry's timestamp + TTL, and a lookup
\* on an absent or expired key returned nothing.
C18_NoExpiredEntry ==
    \A l \in Lookups :
        /\ l.value # NoValue =>
              (l.held # NoValue /\ l.at < l.held_at + CACHE_TTL)
        /\ (l.held = NoValue \/ l.at >= l.held_at + CACHE_TTL) =>
              l.value = NoValue

\* C18 witness: a lookup made exactly TTL after the set found the entry and
\* returned nothing.
C18_Witness ==
    \E l \in Lookups :
        /\ l.held # NoValue
        /\ l.at = l.held_at + CACHE_TTL
        /\ l.value = NoValue

\* The title with case and leading/trailing whitespace taken out.
Normalised(title) == Strip(Lower(title))

\* The last two calls, the second one over, made within the TTL of each other
\* with no clear_cache since the first started.
Pair ==
    /\ Over
    /\ call.n >= 2
    /\ call.start - prev.start < CACHE_TTL
    /\ ~prev.cleared
    /\ ~call.cleared

\* C19: two lookups whose titles differ only in letter case or in
\* leading/trailing whitespace map to the same cache key: when the first
\* search was answered 200 (and so cached), the second is a cache hit.
C19_KeyNormalised ==
    (Pair /\ prev.search = "ok" /\ prev.year = call.year
          /\ Normalised(prev.title) = Normalised(call.title)) =>
        got.search.value # NoValue

\* How many network calls a request that went w made.
Count(w) == IF w = "none" THEN 0 ELSE 1

\* C20 as stated: two calls of enrich with the same arguments within the TTL
\* issue at most one network call for the search and at most one for the
\* details over both calls.
C20_AtMostOneCall ==
    (Pair /\ prev.title = call.title /\ prev.year = call.year) =>
        /\ Count(prev.search) + call.nsearch <= 1
        /\ Count(prev.details) + call.ndetails <= 1

\* C20 amended: when the first call's search was answered 200 the second
\* call issues no search; when the first call's search and details were
\* both answered 200 the second call issues no network call and returns the
\* enrichment.
C20_SecondCallCached ==
    (Pair /\ prev.title = call.title /\ prev.year = call.year) =>
        /\ prev.search = "ok" => call.nsearch = 0
        /\ (prev.search = "ok" /\ prev.details = "ok") =>
              /\ call.ndetails = 0
              /\ call.result = "data"

\* C20 witness: the second call, made some time after the first whose search
\* and details were answered 200, returned the enrichment from the cache.
C20_Witness ==
    /\ Pair
    /\ prev.title = call.title /\ prev.year = call.year
    /\ prev.search = "ok" /\ prev.details = "ok"
    /\ call.start > prev.start
    /\ call.nsearch = 0 /\ call.ndetails = 0
    /\ call.result = "data"

\* C31: the two pipelines agree on the shared search entry: a call through
\* one of them, for a (title, year) that the call before enriched through the
\* other (its search and its details answered 200), returns the enrichment
\* too.
C31_PathsAgree ==
    (Over /\ call.n > 1 /\ ~call.cleared
          /\ prev.search = "ok" /\ prev.details = "ok"
          /\ call.title = prev.title /\ call.year = prev.year
          /\ (call.n \in sync_calls) # (prev.n \in sync_calls)) =>
        call.result = "data"

\* C32: only a request answered 200 makes a cache entry: an answer of another
\* status, a timeout or an exception leaves the cache as it was, and the next
\* lookup of the same key goes to the provider again.
C32_FailureNotCached ==
    /\ [][((call'.nsearch = call.nsearch + 1 /\ Went(call'.sresp) = "failed")
             \/ (call'.ndetails = call.ndetails + 1 /\ Went(call'.dresp) = "failed"))
            => cache' = cache]_vars
    /\ [](call.n > 1 /\ prev.search = "failed"
              /\ Lower(call.title) = Lower(prev.title) /\ call.year = prev.year
            => (epc = "search" \/ call.nsearch = 1))
    /\ [](call.n > 1 /\ prev.details = "failed" /\ got.details.done
            => (epc = "details" \/ call.ndetails = 1))
\* C32 witness: a search the provider failed, and the call after it, for the same
\* key, answered by the provider again.
C32_Witness ==
    /\ Over /\ call.n > 1
    /\ prev.search = "failed"
    /\ Lower(call.title) = Lower(prev.title) /\ call.year = prev.year
    /\ call.nsearch = 1 /\ call.sresp = "results"

\* C33: within one call of the pipeline the details are asked for only after
\* the search is over (answered 200, or served from the cache) and a match
\* with a provider id was selected; while the search is under way no details
\* lookup or request has been made.
C33_SearchBeforeDetails ==
    /\ (epc = "details" \/ call.ndetails > 0 \/ got.details.done) =>
          /\ call.tmdb_id > 0
          /\ \/ call.nsearch = 1 /\ Went(call.sresp) = "ok"
             \/ call.nsearch = 0 /\ got.search.value # NoValue
    /\ epc = "search" => (call.ndetails = 0 /\ ~got.details.done)
\* C33 witness: a call whose search and whose details request the provider
\* answered.
C33_Witness ==
    /\ Over
    /\ call.nsearch = 1 /\ call.ndetails = 1
    /\ call.result = "data"

\* The places (batch, offset) at which item x lies in the batches made.
PlacesOf(x) ==
    {bj \in (1..Len(loop.batches)) \X (1..batch_size) :
        /\ bj[2] <= Len(loop.batches[bj[1]])
        /\ loop.batches[bj[1]][bj[2]] = x}
\* C34: when the loop is over, the batches are consecutive slices of the
\* list of unenriched movies, every batch but the last holds exactly 10
\* items, the last holds between 1 and 10, and every item lies in exactly one
\* batch; 25 items give batches of 10, 10 and 5.
C34_BatchesOfTen ==
    loop.pc = "done" =>
        LET b == loop.batches
            n == Len(loop.items)
        IN /\ \A k \in 1..Len(b) :
                /\ k < Len(b) => Len(b[k]) = 10
                /\ Len(b[k]) \in 1..10
                /\ \A j \in 1..Len(b[k]) : b[k][j] = loop.items[10 * (k - 1) + j]
           /\ \A x \in Range(loop.items) : Cardinality(PlacesOf(x)) = 1
           /\ 10 * (Len(b) - 1) < n \/ n = 0
           /\ n <= 10 * Len(b)
           /\ n = 25 => [k \in 1..Len(b) |-> Len(b[k])] = <<10, 10, 5>>
\* C34 witness: the loop has run over 25 unenriched movies.
C34_Witness ==
    /\ loop.pc = "done"
    /\ Len(loop.items) = 25
    /\ Len(loop.batches) = 3
    /\ Len(loop.batches[3]) = 5

\* C35: between the join of one batch and the start of the next the cycle
\* pauses: the step in which the join of a batch is passed and batch_start
\* moves on starts no task of the next batch.
C35_PauseBetweenBatches ==
    [][pos'["sched"] > pos["sched"] =>
          \A m \in Movies : task'["sched"][m] = "client" => task["sched"][m] = "client"]_vars

\* C36: enrich_session_async never raises to enrich_sessions: a failure of
\* the fetch or of the status update is caught, the call returns normally,
\* and the job is free to go on.
C36_NeverRaises ==
    /\ ended["sched"] # "raised"
    /\ (pc["sched"] = "idle" /\ cycles["sched"] > 0) =>
          ended["sched"] \in {"empty", "completed", "caught"}
\* C36 witness: a storage failure hit the scheduled cycle, and the cycle has
\* returned through its except clause.
C36_Witness ==
    /\ pc["sched"] = "idle"
    /\ cycles["sched"] > 0
    /\ faults > 0
    /\ ended["sched"] = "caught"

\* C37: no step after the upload changes total_movies or a movie's id, title
\* or year; a movie for which the client returned nothing or raised in the
\* running cycle keeps the row the upload stored, with tmdb_enriched false.
C37_CycleLeavesRowsAlone ==
    /\ [][upload = "done" =>
            /\ total_movies' = total_movies
            /\ \A m \in Movies :
                  /\ movie_rows'[m].id = movie_rows[m].id
                  /\ movie_rows'[m].title = movie_rows[m].title
                  /\ movie_rows'[m].year = movie_rows[m].year]_vars
    /\ [](\A m \in Movies :
            out["sched"][m] \in {"nothing", "raise"} =>
                /\ ~tmdb_enriched[m]
                /\ movie_rows[m] = store_movies(m))
\* C37 witness: in one cycle one movie was enriched and saved and for another
\* the client returned nothing.
C37_Witness ==
    \E a, b \in Movies :
        /\ out["sched"][a] = "data" /\ tmdb_enriched[a]
        /\ movie_rows[a].tmdb_id = DataId
        /\ out["sched"][b] = "nothing"
        /\ task["sched"][b] = "done"

\* C38: the record of extract_enrichment_data always holds the keys runtime,
\* budget and revenue, as nulls when the provider gave no value.
C38_NumericKeysKept ==
    extract.fn = "extract_enrichment_data" =>
        {"runtime", "budget", "revenue"} \subseteq DOMAIN extract.out

\* The k-th index of the set S of indices, in increasing order.
Nth(S, k) == CHOOSE i \in S : Cardinality({j \in S : j < i}) = k - 1
\* The crew entries that carry the job 'Director' and a name; the cast
\* entries that carry a name.
NamedDirectors == {i \in 1..Len(extract.arg) :
                      extract.arg[i].job = "Director" /\ extract.arg[i].name # <<>>}
NamedCast == {i \in 1..Len(extract.arg) : extract.arg[i].name # <<>>}
\* C39: the directors returned are the names of the first three crew entries
\* with the job 'Director' and a name, in crew order, fewer when the crew
\* has fewer; the cast returned are the names of the first five named cast
\* entries in listed order.
C39_FirstDirectorsAndCast ==
    /\ extract.fn = "_extract_directors" =>
          /\ Len(extract.out) = Min(3, Cardinality(NamedDirectors))
          /\ \A k \in 1..Len(extract.out) :
                extract.out[k] = Strip(extract.arg[Nth(NamedDirectors, k)].name)
    /\ extract.fn = "_extract_cast" =>
          /\ Len(extract.out) = Min(5, Cardinality(NamedCast))
          /\ \A k \in 1..Len(extract.out) :
                extract.out[k] = Strip(extract.arg[Nth(NamedCast, k)].name)
\* C39 witness: a crew of a writer and four directors gave the first three
\* directors, or a cast of six named entries gave the first five.
C39_Witness ==
    \/ /\ extract.fn = "_extract_directors"
       /\ Cardinality(NamedDirectors) = 3
       /\ Len(extract.arg) = 4
       /\ extract.arg[1].job = "Writer"
       /\ extract.out = <<<<"a">>, <<"b">>, <<"a">>>>
    \/ /\ extract.fn = "_extract_cast"
       /\ Cardinality(NamedCast) = 6
       /\ Len(extract.out) = 5

\* The lookup made has an argument the claim calls invalid: a search with an
\* empty or non-string title, details with an id that is not a positive
\* integer.
InvalidArguments(l) ==
    \/ /\ l.fn = "search_movie_async"
       /\ l.title.type # "str" \/ l.title.v = <<>>
    \/ /\ l.fn = "get_movie_details_async"
       /\ ~(l.tmdb_id.type = "int" /\ l.tmdb_id.v > 0)
\* C40: a lookup with invalid arguments returns nothing, and has not read
\* the cache, taken the semaphore or issued a network call; the step of the
\* call leaves the cache as it was.
C40_InvalidArgumentsDoNothing ==
    /\ [](InvalidArguments(lookup) =>
            /\ lookup.pc = "done"
            /\ lookup.result = "nothing"
            /\ ~lookup.read
            /\ lookup.sem = 0
            /\ lookup.net = 0)
    /\ [][(lookup'.n = lookup.n + 1 /\ InvalidArguments(lookup')) =>
            cache' = cache]_vars
\* C40 witness: after a lookup that filled the cache, a details lookup with
\* an id that is no int has returned nothing.
C40_Witness ==
    /\ lookup.n = 2
    /\ cache # EmptyCache
    /\ lookup.fn = "get_movie_details_async"
    /\ lookup.tmdb_id.type = "str"
    /\ lookup.pc = "done"
    /\ lookup.result = "nothing"

====
